---- MODULE Spec2Model ----
(***************************************************************************)
(* Model of the in-guest recording daemon of the demo-GIF generator:       *)
(*   demo/guest/daemon.py          command server (thread per connection)   *)
(*   demo/guest/lib/screencast.py  Screencast, the recording session        *)
(* Python values are modelled as follows: a dict is a TLA+ record, None is  *)
(* PyNone, an f-string / str(e) is the sequence of its concatenated parts.  *)
(***************************************************************************)
EXTENDS Integers, Sequences, FiniteSets, TLC

\* ------------------------------------------------------------------ bounds
\* Number of connections the listening loop accepts in a run.
MaxConns == 2
\* Number of start()/stop() calls the session harness makes on one Screencast.
MaxOps == 4

Conns == 1..MaxConns

\* ------------------------------------------------------------ Python values
PyNone == "<None>"

\* str(v) as used by f-strings: None prints as "None".
str(v) == IF v = PyNone THEN "None" ELSE v

\* dict.get(key, default)
get(d, k, default) == IF k \in DOMAIN d THEN d[k] ELSE default

\* pathlib.Path(p) followed by str(): redundant separators are collapsed.
Path(p) == IF p = "/tmp//x.webm" THEN "/tmp/x.webm" ELSE p

\* ------------------------------------------------------ scenarios directory
\* SCENARIOS_DIR: stem of each *.py file -> what executing the file gives.
\*   "run"            module defines run()
\*   "no_run"         module loads but has no attribute run
\*   "raises_on_load" executing the module's top-level code raises
\*   "run_not_callable" module has an attribute run that is not callable (run = 5)
\*   "run_needs_args" module defines run(x)
SCENARIOS_DIR ==
  [basic_usage |-> "run", multi_monitor |-> "run",
   norun |-> "no_run", broken |-> "raises_on_load",
   notcallable |-> "run_not_callable", needsargs |-> "run_needs_args"]
    @@ ("_common" :> "no_run")

\* Mutant of load_scenario: the existence check of lines 32-33 is missing.
load_scenario_unchecked(name) ==
  [ok |-> TRUE, module |-> str(name), err |-> <<>>]

\* load_scenario(name): [ok, module, err]; err is str(e) of the exception raised.
load_scenario(name) ==
  LET stem == str(name) IN
  IF stem \notin DOMAIN SCENARIOS_DIR
    THEN [ok |-> FALSE, module |-> PyNone,
          err |-> <<"Scenario not found: ", stem, ".py">>]
  ELSE IF SCENARIOS_DIR[stem] = "raises_on_load"
    THEN [ok |-> FALSE, module |-> PyNone, err |-> <<"error executing ", stem>>]
  ELSE IF SCENARIOS_DIR[stem] = "no_run"
    THEN [ok |-> FALSE, module |-> PyNone,
          err |-> <<"Scenario ", stem, " must have a 'run' function">>]
  ELSE [ok |-> TRUE, module |-> stem, err |-> <<>>]

\* The versions of a scenario file's top-level code that one call of
\* load_scenario executes, the file standing at version src: none when the
\* file does not exist (line 32), else the file as it is now: lines 35-40 build
\* a new spec and a new module for every call and execute it, whatever
\* modules earlier calls built (held).
MaxEdits == 1

\* Mutant of exec_module: a module built by an earlier call is used again.
exec_module_cached(stem, src, held) ==
  IF stem \notin DOMAIN SCENARIOS_DIR THEN <<>>
  ELSE IF stem \in held THEN <<>>
  ELSE <<src>>

exec_module(stem, src, held) ==
  IF stem \notin DOMAIN SCENARIOS_DIR THEN <<>> ELSE <<src>>

\* --------------------------------------------------------------- Screencast
\* Screencast.__init__
Screencast_init == [recording |-> FALSE, output_path |-> PyNone, proxy |-> PyNone]

\* No instance: the handler has not reached line 66.
NoScreencast == [k \in {} |-> PyNone]

\* Whether s is a Screencast that is recording.
is_recording(s) == s # NoScreencast /\ s.recording

\* Outcomes of the collaborators a Screencast method calls:
\*   bus: Gio.DBusProxy.new_for_bus_sync  "ok" | "raise" (GLib.Error)
\*   svc: proxy.call_sync + unpack        "success" | "refused" | "raise"
BusOutcomes == {"ok", "raise"}
SvcOutcomes == {"success", "refused", "raise"}

\* Screencast._get_proxy: [self, raised]
get_proxy(self, bus) ==
  IF self.proxy = PyNone
    THEN IF bus = "ok"
           THEN [self |-> [self EXCEPT !.proxy = "proxy"], raised |-> FALSE]
           ELSE [self |-> self, raised |-> TRUE]
    ELSE [self |-> self, raised |-> FALSE]

\* Screencast.start without the guard of lines 52-53.
start_unguarded(self, output_path, bus, svc) ==
  LET s1 == [self EXCEPT !.output_path = Path(output_path)]
      gp == get_proxy(s1, bus)
  IN IF gp.raised
       THEN [self |-> gp.self, ret |-> "raise", calls |-> 0, sent |-> PyNone]
     ELSE IF svc = "success"
       THEN [self |-> [gp.self EXCEPT !.recording = TRUE], ret |-> "True",
             calls |-> 1, sent |-> s1.output_path]
     ELSE [self |-> gp.self, ret |-> "False", calls |-> 1, sent |-> s1.output_path]

\* Mutant of Screencast_start: the guard of lines 52-53 is missing.
Screencast_start_noguard(self, output_path, bus, svc) ==
  start_unguarded(self, output_path, bus, svc)

\* Screencast.start(output_path): [self, ret, calls, sent]
\*   ret   "True" | "False" | "raise" (an exception leaves the method)
\*   calls number of Screencast calls issued to the recording service
\*   sent  the path handed to the service
Screencast_start(self, output_path, bus, svc) ==
  IF self.recording
    THEN [self |-> self, ret |-> "False", calls |-> 0, sent |-> PyNone]
    ELSE start_unguarded(self, output_path, bus, svc)

\* Mutant of Screencast_stop: the guard of lines 107-108 is missing.
Screencast_stop_noguard(self, bus, svc) ==
  LET gp == get_proxy(self, bus) IN
  IF gp.raised
    THEN [self |-> gp.self, ret |-> "raise", calls |-> 0]
  ELSE IF svc = "success"
    THEN [self |-> [gp.self EXCEPT !.recording = FALSE], ret |-> "True", calls |-> 1]
  ELSE [self |-> gp.self, ret |-> "False", calls |-> 1]

\* Mutant of Screencast_stop: the session is marked idle whatever the service
\* answered.
Screencast_stop_always_idle(self, bus, svc) ==
  IF ~self.recording
    THEN [self |-> self, ret |-> "False", calls |-> 0]
    ELSE LET gp == get_proxy(self, bus) IN
         IF gp.raised
           THEN [self |-> gp.self, ret |-> "raise", calls |-> 0]
         ELSE [self |-> [gp.self EXCEPT !.recording = FALSE],
               ret |-> IF svc = "success" THEN "True" ELSE "False", calls |-> 1]

\* Screencast.stop(): [self, ret, calls]
Screencast_stop(self, bus, svc) ==
  IF ~self.recording
    THEN [self |-> self, ret |-> "False", calls |-> 0]
    ELSE LET gp == get_proxy(self, bus) IN
         IF gp.raised
           THEN [self |-> gp.self, ret |-> "raise", calls |-> 0]
         ELSE IF svc = "success"
           THEN [self |-> [gp.self EXCEPT !.recording = FALSE], ret |-> "True",
                 calls |-> 1]
         ELSE [self |-> gp.self, ret |-> "False", calls |-> 1]

\* ------------------------------------------------------------ request bytes
\* What a peer delivers before the read loop of handle_client ends:
\*   text  "empty" (no payload) | "invalid" ("{not json") | "array" ("[1]", valid
\*         JSON that is no object) | "object" (the JSON object cmd)
\*   nl    TRUE: the payload is followed by a newline; FALSE: the peer closed its
\*         sending side instead
EmptyDict == [k \in {} |-> PyNone]

Commands ==
  { [action |-> "ping"],
    [action |-> "ping", scenario |-> "basic_usage", output |-> "/tmp/x.webm"],
    [action |-> "list_scenarios"],
    [action |-> "frobnicate"],
    [scenario |-> "basic_usage"],
    [action |-> "record", scenario |-> "does_not_exist", output |-> "/tmp/x.webm"],
    [action |-> "record"],
    [action |-> "record", scenario |-> "broken"],
    [action |-> "record", scenario |-> "norun"],
    [action |-> "record", scenario |-> "basic_usage", output |-> "/tmp/x.webm"] }

Requests ==
  { [text |-> "empty", nl |-> FALSE, cmd |-> EmptyDict],
    [text |-> "empty", nl |-> TRUE, cmd |-> EmptyDict],
    [text |-> "invalid", nl |-> TRUE, cmd |-> EmptyDict],
    [text |-> "array", nl |-> TRUE, cmd |-> EmptyDict],
    [text |-> "object", nl |-> FALSE, cmd |-> [action |-> "ping"]] }
  \cup { [text |-> "object", nl |-> TRUE, cmd |-> c] : c \in Commands }

NoData == [text |-> "unread", nl |-> FALSE, cmd |-> EmptyDict]

\* Mutant of is_empty: the buffer is stripped before it is tested.
is_empty_stripped(buf) == buf.text = "empty"

\* The bytes buffered by the read loop: b"" exactly when nothing was delivered.
is_empty(buf) == buf.text = "empty" /\ ~buf.nl

\* The Python type json.loads makes of a JSON text that is not an object.
NonObjects ==
  [array |-> "list", string |-> "str", number |-> "int", true |-> "bool",
   null |-> "NoneType"]

\* json.loads(buf.decode("utf-8").strip()): [ok, is_dict, value, err, exc, type]
\*   exc  the class of the exception raised when ok is FALSE: decode raises
\*        UnicodeDecodeError for bytes that are not UTF-8, loads raises
\*        JSONDecodeError
\*   type the class of the value when it is not a dict
json_loads(buf) ==
  IF buf.text = "not_utf8"
    THEN [ok |-> FALSE, is_dict |-> FALSE, value |-> EmptyDict, type |-> "",
          exc |-> "UnicodeDecodeError",
          err |-> "'utf-8' codec can't decode byte 0xff in position 0: invalid start byte"]
  ELSE IF buf.text \in {"empty", "invalid"}
    THEN [ok |-> FALSE, is_dict |-> FALSE, value |-> EmptyDict, type |-> "",
          exc |-> "JSONDecodeError",
          err |-> IF buf.text = "empty" THEN "Expecting value: line 1 column 1 (char 0)"
                  ELSE "Expecting property name enclosed in double quotes: line 1 column 2 (char 1)"]
  ELSE IF buf.text \in DOMAIN NonObjects
    THEN [ok |-> TRUE, is_dict |-> FALSE, value |-> EmptyDict,
          type |-> NonObjects[buf.text], exc |-> "", err |-> ""]
  ELSE [ok |-> TRUE, is_dict |-> TRUE, value |-> buf.cmd, type |-> "dict",
        exc |-> "", err |-> ""]

\* ----------------------------------------------------------------- responses
NoResult == EmptyDict
error(message) == [status |-> "error", message |-> message]

\* f.stem.startswith("_"), for the stems of the directory.
startswith_underscore(stem) == stem \in {"_common"}

\* Mutant of scenario_stems: the filter of line 83 is missing.
scenario_stems_unfiltered == DOMAIN SCENARIOS_DIR

\* list_scenarios: the stems of SCENARIOS_DIR/*.py that do not start with an
\* underscore (the list in directory order, modelled as its set).
scenario_stems ==
  {stem \in DOMAIN SCENARIOS_DIR : ~startswith_underscore(stem)}

\* Mutant of handle_command: the ping response echoes the command's output.
handle_command_ping_echo(cmd) ==
  LET action == get(cmd, "action", PyNone) IN
  IF action = "ping"
    THEN IF "output" \in DOMAIN cmd
           THEN [status |-> "ok", message |-> <<"pong">>, output |-> cmd.output]
           ELSE [status |-> "ok", message |-> <<"pong">>]
  ELSE IF action = "record"
    THEN error(load_scenario(get(cmd, "scenario", PyNone)).err)
  ELSE IF action = "list_scenarios"
    THEN [status |-> "ok", scenarios |-> scenario_stems]
  ELSE error(<<"Unknown action: ", str(action)>>)

\* Mutant of handle_command: a missing action defaults to "ping".
handle_command_default_ping(cmd) ==
  LET action == get(cmd, "action", "ping") IN
  IF action = "ping" THEN [status |-> "ok", message |-> <<"pong">>]
  ELSE IF action = "record"
    THEN error(load_scenario(get(cmd, "scenario", PyNone)).err)
  ELSE IF action = "list_scenarios"
    THEN [status |-> "ok", scenarios |-> scenario_stems]
  ELSE error(<<"Unknown action: ", str(action)>>)

\* handle_command for the actions that finish without a recording;
\* for action "record" the steps below take over after load_scenario.
handle_command(cmd) ==
  LET action == get(cmd, "action", PyNone) IN
  IF action = "ping" THEN [status |-> "ok", message |-> <<"pong">>]
  ELSE IF action = "record"
    THEN error(load_scenario(get(cmd, "scenario", PyNone)).err)
  ELSE IF action = "list_scenarios"
    THEN [status |-> "ok", scenarios |-> scenario_stems]
  ELSE error(<<"Unknown action: ", str(action)>>)

\* ------------------------------------------------------------- input engine
\* lib/input.py: the module globals _last_x/_last_y and _uinput_device, the
\* pointer the display server holds, and the calls a scenario makes.  Points
\* are pairs <<x, y>>.
MaxCoord == 999
MaxSteps == 5
MaxMoves == 2
MaxThreads == 2

Targets == {<<0, 0>>, <<MaxCoord, -(MaxCoord + 1)>>, <<1, MaxCoord>>,
            <<-(MaxCoord + 1), 1>>}
StepCounts == {0, 1, MaxSteps}
Buttons == {1, 3, 4}
Threads == 1..MaxThreads

UInputOutcomes == {"ok", "raise"}
XQueryOutcomes == {"ok", "fail"}
NoStep == -1
WriteRaises == {NoStep, 1}
ClickRaises == {"none", "press", "release"}

\* UInput(cap, name="demo-virtual-mouse"): the n-th handle the process created.
UInput(n) == "demo-virtual-mouse#" \o ToString(n)

\* _get_uinput_device(): the module global afterwards, the value returned, and
\* whether UInput() was called and whether it succeeded.
get_uinput_device(device, made, outcome) ==
  IF device # PyNone
    THEN [device |-> device, ret |-> device, tried |-> 0, made |-> 0]
  ELSE IF outcome = "ok"
    THEN [device |-> UInput(made + 1), ret |-> UInput(made + 1),
          tried |-> 1, made |-> 1]
  ELSE [device |-> PyNone, ret |-> PyNone, tried |-> 1, made |-> 0]

\* _get_mouse_position(): the tracked position on Wayland; on X11 what xdotool
\* reports, or the tracked position when xdotool fails.
get_mouse_position(tracked, shown, wayland, xq) ==
  IF wayland THEN tracked
  ELSE IF xq = "ok" THEN shown
  ELSE tracked

\* Mutant of update_position: the tracked position is reset to the origin.
update_position_origin(x, y) == <<0, 0>>

\* _update_position(x, y): the new value of (_last_x, _last_y).
update_position(x, y) == <<x, y>>

\* int(a / b) for b > 0: truncation toward zero.
int_div(a, b) == IF a >= 0 THEN a \div b ELSE -((-a) \div b)

sgn(a) == IF a > 0 THEN 1 ELSE IF a < 0 THEN -1 ELSE 0

\* Mutant of curve_num: the curve is t * (3 - 2 * t), which passes 1 before
\* t = 1.
curve_num_overshoot(i, steps) == i * steps * (3 * steps - 2 * i)

\* t = i / steps; t = t * t * (3 - 2 * t), as the fraction
\* curve_num(i, steps) / curve_den(steps).
curve_num(i, steps) == i * i * (3 * steps - 2 * i)
curve_den(steps) == steps * steps * steps

\* Step i of a move is one at which total * t is, in exact arithmetic, a
\* non-zero integer, the end points apart: the only steps where the rounding of
\* the floating-point product can change int(total * t).
is_exact_step(total, i, steps) ==
  /\ 0 < i /\ i < steps
  /\ total # 0
  /\ (total * curve_num(i, steps)) % curve_den(steps) = 0

\* lo names the steps at which the floating-point product falls short of the
\* integer: 0 none, NoStep all of them, k > 0 step k alone.
is_low_choice(lo, total, steps) ==
  \/ lo = 0
  \/ /\ lo = NoStep
     /\ \E i \in 1..(steps - 1) :
          is_exact_step(total[1], i, steps) \/ is_exact_step(total[2], i, steps)
  \/ is_exact_step(total[1], lo, steps)
  \/ is_exact_step(total[2], lo, steps)

\* Mutant of target_moved: the curve is sampled at i / (steps + 1), so the walk
\* ends before t = 1.
target_moved_open(total, i, steps, lo) ==
  int_div(total * curve_num(i, steps + 1), curve_den(steps + 1))

\* int(total * t) at step i.  At i = 0 and i = steps the factor t is exactly 0.0
\* and 1.0; in between the double product of an exact integer result may be
\* that integer or fall just short of it, which lo selects.
target_moved(total, i, steps, lo) ==
  LET n == total * curve_num(i, steps)
      d == curve_den(steps)
      q == int_div(n, d)
  IN IF (lo = NoStep \/ lo = i) /\ is_exact_step(total, i, steps)
       THEN q - sgn(q)
       ELSE q

NoWalk == [rel |-> <<>>, abs |-> <<>>, moved |-> <<0, 0>>]

\* The loop of smooth_move, iterations i..steps: the (dx, dy) handed to
\* _move_uinput_rel and the (x, y) handed to the tool, in order.
RECURSIVE smooth_move_loop(_, _, _, _, _, _)
smooth_move_loop(i, steps, total, from, lo, acc) ==
  IF i > steps THEN acc
  ELSE LET target_moved_x == target_moved(total[1], i, steps, lo)
           target_moved_y == target_moved(total[2], i, steps, lo)
           dx == target_moved_x - acc.moved[1]
           dy == target_moved_y - acc.moved[2]
           x == from[1] + target_moved_x
           y == from[2] + target_moved_y
       IN smooth_move_loop(i + 1, steps, total, from, lo,
                           [rel |-> Append(acc.rel, <<dx, dy>>),
                            abs |-> Append(acc.abs, <<x, y>>),
                            moved |-> <<target_moved_x, target_moved_y>>])

\* The sum of a sequence of pairs, skipping the entry at index skip.
RECURSIVE sum_pairs(_, _)
sum_pairs(s, skip) ==
  IF s = <<>> THEN <<0, 0>>
  ELSE LET r == sum_pairs(SubSeq(s, 1, Len(s) - 1), skip)
           e == IF Len(s) = skip THEN <<0, 0>> ELSE s[Len(s)]
       IN <<r[1] + e[1], r[2] + e[2]>>

\* What the last call of the input engine did.
NoCall == [op |-> "none", from |-> <<0, 0>>, to |-> <<0, 0>>, steps |-> 0,
           avail |-> FALSE, rel |-> <<>>, abs |-> <<>>, ret |-> "none",
           button |-> 0, events |-> <<>>]

\* ------------------------------------------------- Screencast.start, options
\* Python values an options dict can hold.  An int is hi * 2^16 + lo with
\* 0 <= lo < 2^16, so that values beyond 32 bits can be written down; a bool
\* is the int subclass with value lo.
MaxOptions == 2
PyBool(b) == [t |-> "bool", hi |-> 0, lo |-> IF b THEN 1 ELSE 0, s |-> ""]
PyInt(hi, lo) == [t |-> "int", hi |-> hi, lo |-> lo, s |-> ""]
PyStr(s) == [t |-> "str", hi |-> 0, lo |-> 0, s |-> s]
PyOther(t) == [t |-> t, hi |-> 0, lo |-> 0, s |-> ""]
PyValues ==
  {PyBool(TRUE), PyBool(FALSE), PyInt(0, 30), PyInt(32767, 65535), PyInt(32768, 0),
   PyStr("x"), PyOther("float"), PyOther("NoneType"), PyOther("list")}
OptionKeys == {"opt" \o ToString(i) : i \in 1..MaxOptions}

\* The dicts with at most MaxOptions entries, as sequences of [k, v] in
\* insertion order.
RECURSIVE OptionDicts(_)
OptionDicts(n) ==
  IF n = 0 THEN {<<>>}
  ELSE LET shorter == OptionDicts(n - 1)
       IN shorter \cup
          {Append(d, [k |-> k, v |-> v]) :
             d \in {e \in shorter : Len(e) = n - 1},
             k \in OptionKeys, v \in PyValues}

distinct_keys(d) == \A i, j \in 1..Len(d) : d[i].k = d[j].k => i = j
Options == {d \in OptionDicts(MaxOptions) : distinct_keys(d)}

isinstance_int(v) == v.t \in {"bool", "int"}
in_int32(v) == -32768 <= v.hi /\ v.hi <= 32767

\* Lines 62-69: the GLib.Variant made of one value; new_int32 raises
\* OverflowError for an int outside -2^31 .. 2^31 - 1.
to_variant(v) ==
  IF v.t = "bool"
    THEN [kind |-> "val", sig |-> "b", hi |-> 0, lo |-> v.lo, s |-> ""]
  ELSE IF isinstance_int(v)
    THEN IF in_int32(v)
           THEN [kind |-> "val", sig |-> "i", hi |-> v.hi, lo |-> v.lo, s |-> ""]
           ELSE [kind |-> "raise", sig |-> "", hi |-> 0, lo |-> 0, s |-> ""]
  ELSE IF v.t = "str"
    THEN [kind |-> "val", sig |-> "s", hi |-> 0, lo |-> 0, s |-> v.s]
  ELSE [kind |-> "continue", sig |-> "", hi |-> 0, lo |-> 0, s |-> ""]

\* Lines 59-76: [raised, opts], opts the entries added to the builder so far.
RECURSIVE build_options(_, _)
build_options(d, opts) ==
  IF d = <<>> THEN [raised |-> FALSE, opts |-> opts]
  ELSE LET val == to_variant(Head(d).v) IN
       IF val.kind = "raise" THEN [raised |-> TRUE, opts |-> opts]
       ELSE IF val.kind = "continue" THEN build_options(Tail(d), opts)
       ELSE build_options(Tail(d),
              Append(opts, [k |-> Head(d).k, sig |-> val.sig,
                            hi |-> val.hi, lo |-> val.lo, s |-> val.s]))

\* Nothing was built: start() has not been called, or returned before line 59.
NoBuilt == [raised |-> FALSE, sent |-> FALSE, opts |-> <<>>]

\* --------------------------------------------------------- the wire, JSON
\* Bytes on a connection, as a sequence of tokens: "{", one token per member
\* of the object, "}", and the newline.  A member token carries the key, the
\* JSON type the value is written as, and the value.
Open == [t |-> "{", k |-> "", v |-> ""]
Close == [t |-> "}", k |-> "", v |-> ""]
Newline == [t |-> "newline", k |-> "", v |-> ""]

\* The keys of the dicts the clients and the daemon build, in the order the
\* dict literals insert them, and the JSON type json.dumps writes each value as.
RequestKeys == <<"action", "scenario", "output", "pre_delay", "post_delay">>
ResponseKeys == <<"status", "message", "output", "scenarios">>
json_type(k) ==
  IF k \in {"pre_delay", "post_delay"} THEN "number"
  ELSE IF k = "scenarios" THEN "array" ELSE "string"

\* json.dumps(obj).encode("utf-8"): the object on one line, no newline in it.
json_dumps(obj, keys) ==
  LET present == SelectSeq(keys, LAMBDA k : k \in DOMAIN obj)
  IN <<Open>>
       \o [i \in 1..Len(present) |->
             [t |-> json_type(present[i]), k |-> present[i], v |-> obj[present[i]]]]
       \o <<Close>>

\* b"\n" in data
has_newline(data) == \E i \in 1..Len(data) : data[i].t = "newline"

\* Mutant of read_loop: recv is called once.
read_loop_once(chunks, data) ==
  IF chunks = <<>> THEN data ELSE data \o Head(chunks)

\* The read loop of handle_client (lines 97-103) and of send_command
\* (daemon_client.py lines 22-29, run.py lines 125-132): chunks are appended
\* until one brings a newline; the peer sends nothing after its newline.
RECURSIVE read_loop(_, _)
read_loop(chunks, data) ==
  IF chunks = <<>> THEN data
  ELSE LET more == data \o Head(chunks)
       IN IF has_newline(more) THEN more ELSE read_loop(Tail(chunks), more)

\* The ways the transport hands the bytes to recv: all at once, or cut after
\* token j.
split(bytes, j) ==
  IF j >= Len(bytes) THEN <<bytes>>
  ELSE <<SubSeq(bytes, 1, j), SubSeq(bytes, j + 1, Len(bytes))>>

\* data.decode("utf-8").strip(): the trailing newline goes.
RECURSIVE strip(_)
strip(data) ==
  IF data # <<>> /\ data[Len(data)].t = "newline"
    THEN strip(SubSeq(data, 1, Len(data) - 1))
    ELSE data

\* The dict json.loads builds of the members read.
RECURSIVE object_of(_)
object_of(members) ==
  IF members = <<>> THEN EmptyDict
  ELSE LET e == members[Len(members)]
       IN (e.k :> e.v) @@ object_of(SubSeq(members, 1, Len(members) - 1))

\* json.loads(text) of a text made of such tokens: [ok, value]; a text that
\* stops before the closing brace raises JSONDecodeError.
json_loads_text(text) ==
  IF Len(text) >= 2 /\ text[1].t = "{" /\ text[Len(text)].t = "}"
    THEN [ok |-> TRUE, value |-> object_of(SubSeq(text, 2, Len(text) - 1))]
    ELSE [ok |-> FALSE, value |-> EmptyDict]

\* The bytes handle_client has buffered, as the request the daemon's steps
\* work on.
to_request(data) ==
  LET j == json_loads_text(strip(data))
  IN [text |-> IF j.ok THEN "object" ELSE IF strip(data) = <<>> THEN "empty" ELSE "invalid",
      nl |-> has_newline(data),
      cmd |-> j.value]

\* The command dicts the clients build: daemon_client.py main (lines 74-85),
\* run.py check_daemon (line 142) and run_scenario (lines 171-178).
ClientCommands ==
  { [action |-> "ping"],
    [action |-> "list_scenarios"],
    [action |-> "record", scenario |-> "basic_usage", output |-> "/tmp/basic_usage.webm"],
    [action |-> "record", scenario |-> "does_not_exist", output |-> "/tmp/recording.webm",
     pre_delay |-> 1, post_delay |-> 1] }

\* What send_command puts on the wire, and what handle_client does (line 114).
request_bytes(cmd) == Append(json_dumps(cmd, RequestKeys), Newline)
response_bytes(result) == Append(json_dumps(result, ResponseKeys), Newline)

\* ------------------------------------------------------- host orchestrator
\* host/run.py.  The command line: --scenario NAME or --all, --session, and
\* --keep-webm.
HostArgs ==
  [scenario : {"basic_usage", "--all"}, session : {"x11", "wayland", "both"},
   keep_webm : BOOLEAN]

\* get_available_scenarios(): the stems of guest/scenarios on the host.
get_available_scenarios == <<"basic_usage", "multi_monitor">>

\* main, lines 231-232 and 258-260: the (scenario, session) pairs in the
\* order the nested loops run them.
scenarios_of(args) ==
  IF args.scenario = "--all" THEN get_available_scenarios ELSE <<args.scenario>>
sessions_of(args) ==
  IF args.session = "both" THEN <<"x11", "wayland">> ELSE <<args.session>>
pairs_of(args) ==
  LET sc == scenarios_of(args)
      se == sessions_of(args)
  IN [i \in 1..(Len(se) * Len(sc)) |->
        [scenario |-> sc[((i - 1) % Len(sc)) + 1],
         session |-> se[((i - 1) \div Len(sc)) + 1]]]

\* run_scenario, line 195: output_subdir / f"{scenario}.gif"
local_gif(pair) == "output/" \o pair.session \o "/" \o pair.scenario \o ".gif"

\* Mutant of exit_status: the run fails only when no pair produced a GIF.
exit_status_any(results) ==
  IF Len(SelectSeq(results, LAMBDA g : g # PyNone)) = 0 THEN 1 ELSE 0

\* main, lines 267-277: sys.exit(1) when success_count < len(results), else
\* the interpreter exits with 0.
exit_status(results) ==
  LET success_count == Len(SelectSeq(results, LAMBDA g : g # PyNone))
  IN IF success_count < Len(results) THEN 1 ELSE 0

\* How a step of run_scenario can end.
RecordAnswers == {"ok", "error", "socket.error", "JSONDecodeError"}
ReturnCodes == {0, 1, 255}
ScpOutcomes == {"ok", "CalledProcessError"}
NoArgs == [scenario |-> "", session |-> "", keep_webm |-> FALSE]

\* -------------------------------------------------------------------- state
VARIABLES
  pc,          \* pc[c]: where the thread of connection c stands
  data,        \* data[c]: the bytes its read loop buffered
  result,      \* result[c]: the response dict handle_client built
  sent,        \* sent[c]: number of responses written to the socket
  closed,      \* closed[c]: conn.close() was called
  screencast,  \* screencast[c]: the Screencast c's handler constructed, if any
  ran,         \* ran[c]: "no" | "returned" | "raised", scenario.run() of c
  starts,      \* starts[c]: service start calls issued during c's command
  stops,       \* stops[c]: stop() invocations made by c's handler
  loads,       \* loads[c]: load_scenario calls made by c's handler
  start_ret,   \* start_ret[c]: what start() returned to c's handler, "none" before
  stop_ret,    \* stop_ret[c]: what stop() returned to c's handler, "none" before
  pending,     \* pending[c]: message of the exception propagating in c, or <<>>
  slept,       \* slept[c]: the durations c's handler passed to time.sleep, in order
  source,      \* version of the content of the scenario files on disk
  executed,    \* executed[c]: versions of top-level code c's handler executed
  \* one Screencast driven directly by a caller (SessionSpec)
  session,     \* the Screencast instance
  op,          \* the method called last: "none" | "start" | "stop"
  ret,         \* what that call returned: "none" | "True" | "False" | "raise"
  svc_starts,  \* Screencast calls issued to the recording service
  svc_stops,   \* StopScreencast calls issued to the recording service
  active,      \* recordings the service has started and not stopped
  svc_reply,   \* the service's answer to that call, "none" if it issued none
  bus_raised,  \* whether creating the D-Bus proxy raised in that call
  ops,         \* number of calls made
  \* lib/input.py
  IS_WAYLAND,     \* XDG_SESSION_TYPE == "wayland", read once at import
  last,           \* <<_last_x, _last_y>>
  pointer,        \* where the display server has the pointer
  uinput_device,  \* _uinput_device: PyNone or the cached handle
  attempts,       \* calls of UInput() made so far
  created,        \* handles UInput() returned so far
  call,           \* the last call of the input engine and what it emitted
  calls,          \* number of calls of the input engine
  \* scenario threads inside _get_uinput_device (DeviceSpec)
  tpc,            \* tpc[th]: "idle" | "create" | "write"
  handle,         \* handle[th]: what _get_uinput_device returned to th
  tcalls,         \* tcalls[th]: calls of _get_uinput_device th has begun
  written,        \* the handles device.write was called on
  \* threads inside Screencast.start of one instance (RaceSpec)
  spc,            \* spc[th]: "idle" | "call" (past the test of line 52)
  sret,           \* sret[th]: what start() returned to th last, "none" before
  \* a caller of Screencast.start(output_path, options) (OptionsSpec)
  options,        \* the dict passed as options
  built,          \* what the call made of it: the a{sv} sent, or the raise
  \* the client of each connection, inside send_command (ClientSpec)
  cpc,            \* cpc[c]: "idle" | "sent" | "returned" | "raised"
  ccmd,           \* ccmd[c]: the cmd dict passed to send_command
  returned,       \* returned[c]: the dict send_command returned
  \* host/run.py (HostSpec)
  hpc,            \* where main stands: "main" | "record" | "convert" | "copy"
                  \*   | "webm" | "summary" | "exit"
  hargs,          \* the parsed command line
  hpairs,         \* the (scenario, session) pairs of the loops
  hlogs,          \* hlogs[i]: what run_scenario did for pair i, in order
  hresults,       \* results: the gif_path of each pair run, PyNone for None
  hexit           \* the exit status of the process, -1 while it runs

daemon_vars == <<pc, data, result, sent, closed, screencast,
                 ran, starts, stops, loads, start_ret, stop_ret, pending, slept,
                 source, executed>>
session_vars == <<session, op, ret, svc_starts, svc_stops, active, svc_reply,
                  bus_raised, ops>>
input_vars == <<IS_WAYLAND, last, pointer, uinput_device, attempts, created,
                call, calls>>
thread_vars == <<tpc, handle, tcalls, written, spc, sret>>
host_vars == <<hpc, hargs, hpairs, hlogs, hresults, hexit>>
other_vars == <<options, built, cpc, ccmd, returned, host_vars>>
vars == <<daemon_vars, session_vars, input_vars, thread_vars, other_vars>>

DaemonInit ==
  /\ pc = [c \in Conns |-> "unaccepted"]
  /\ data = [c \in Conns |-> NoData]
  /\ result = [c \in Conns |-> NoResult]
  /\ sent = [c \in Conns |-> 0]
  /\ closed = [c \in Conns |-> FALSE]
  /\ screencast = [c \in Conns |-> NoScreencast]
  /\ ran = [c \in Conns |-> "no"]
  /\ starts = [c \in Conns |-> 0]
  /\ stops = [c \in Conns |-> 0]
  /\ loads = [c \in Conns |-> 0]
  /\ start_ret = [c \in Conns |-> "none"]
  /\ stop_ret = [c \in Conns |-> "none"]
  /\ pending = [c \in Conns |-> <<>>]
  /\ slept = [c \in Conns |-> <<>>]
  /\ source = 0
  /\ executed = [c \in Conns |-> <<>>]
  /\ session = Screencast_init
  /\ op = "none"
  /\ ret = "none"
  /\ svc_starts = 0
  /\ svc_stops = 0
  /\ active = 0
  /\ svc_reply = "none"
  /\ bus_raised = FALSE
  /\ ops = 0

InputInit ==
  /\ last = <<0, 0>>
  /\ pointer = <<0, 0>>
  /\ uinput_device = PyNone
  /\ attempts = 0
  /\ created = 0
  /\ call = NoCall
  /\ calls = 0

ThreadInit ==
  /\ tpc = [th \in Threads |-> "idle"]
  /\ handle = [th \in Threads |-> PyNone]
  /\ tcalls = [th \in Threads |-> 0]
  /\ written = {}
  /\ spc = [th \in Threads |-> "idle"]
  /\ sret = [th \in Threads |-> "none"]

HostInit ==
  /\ hpc = "main"
  /\ hargs = NoArgs
  /\ hpairs = <<>>
  /\ hlogs = <<>>
  /\ hresults = <<>>
  /\ hexit = -1

ClientInit ==
  /\ cpc = [c \in Conns |-> "idle"]
  /\ ccmd = [c \in Conns |-> EmptyDict]
  /\ returned = [c \in Conns |-> NoResult]

OtherInit ==
  /\ options = <<>>
  /\ built = NoBuilt
  /\ ClientInit
  /\ HostInit

Init ==
  /\ OtherInit
  /\ DaemonInit
  /\ IS_WAYLAND = TRUE
  /\ InputInit
  /\ ThreadInit

\* ------------------------------------------------------------------ actions
\* run_server, lines 132-136: accept the next connection and start its thread.
accept(c) ==
  /\ UNCHANGED <<session_vars, input_vars, thread_vars, other_vars, slept, source, executed>>
  /\ pc[c] = "unaccepted"
  /\ \A b \in Conns : b < c => pc[b] # "unaccepted"
  /\ pc' = [pc EXCEPT ![c] = "recv"]
  /\ UNCHANGED <<data, result, sent, closed, screencast,
                 ran, starts, stops, loads, start_ret, stop_ret, pending>>

\* The response handle_client builds when json.loads fails (lines 109-110).
invalid_json(err) == error(<<"Invalid JSON: ", err>>)

\* Mutant of dispatch: a JSON parse failure is not caught, the thread ends
\* without building a response.
dispatch_uncaught(buf) ==
  IF is_empty(buf) THEN [next |-> "close", result |-> NoResult, loads |-> 0]
  ELSE LET j == json_loads(buf) IN
    IF ~j.ok THEN [next |-> "close", result |-> NoResult, loads |-> 0]
    ELSE IF ~j.is_dict
      THEN [next |-> "send", loads |-> 0,
            result |-> error(<<"'" \o j.type \o "' object has no attribute 'get'">>)]
    ELSE IF get(j.value, "action", PyNone) = "record"
      THEN IF load_scenario(get(j.value, "scenario", PyNone)).ok
             THEN [next |-> "start", result |-> NoResult, loads |-> 1]
             ELSE [next |-> "send", result |-> handle_command(j.value), loads |-> 1]
    ELSE [next |-> "send", result |-> handle_command(j.value), loads |-> 0]

\* Mutant of dispatch: only json.JSONDecodeError is caught (no line 111); any
\* other exception ends the thread without a response.
dispatch_json_errors_only(buf) ==
  IF is_empty(buf) THEN [next |-> "close", result |-> NoResult, loads |-> 0]
  ELSE LET j == json_loads(buf) IN
    IF ~j.ok
      THEN IF j.exc = "JSONDecodeError"
             THEN [next |-> "send", result |-> invalid_json(j.err), loads |-> 0]
             ELSE [next |-> "close", result |-> NoResult, loads |-> 0]
    ELSE IF ~j.is_dict
      THEN [next |-> "close", result |-> NoResult, loads |-> 0]
    ELSE IF get(j.value, "action", PyNone) = "record"
      THEN IF load_scenario(get(j.value, "scenario", PyNone)).ok
             THEN [next |-> "start", result |-> NoResult, loads |-> 1]
             ELSE [next |-> "send", result |-> handle_command(j.value), loads |-> 1]
    ELSE [next |-> "send", result |-> handle_command(j.value), loads |-> 0]

\* handle_client, lines 105-112, up to the first blocking call of a record
\* command: [next, result, loads], next being the thread's next position and
\* loads the number of load_scenario calls made.
dispatch(buf) ==
  IF is_empty(buf) THEN [next |-> "close", result |-> NoResult, loads |-> 0]
  ELSE LET j == json_loads(buf) IN
    IF ~j.ok
      THEN [next |-> "send", loads |-> 0,
            result |-> IF j.exc = "JSONDecodeError" THEN invalid_json(j.err)
                       ELSE error(<<j.err>>)]
    ELSE IF ~j.is_dict
      THEN [next |-> "send", loads |-> 0,
            result |-> error(<<"'" \o j.type \o "' object has no attribute 'get'">>)]
    ELSE IF get(j.value, "action", PyNone) = "record"
      THEN IF load_scenario(get(j.value, "scenario", PyNone)).ok
             THEN [next |-> "start", result |-> NoResult, loads |-> 1]
             ELSE [next |-> "send", result |-> handle_command(j.value), loads |-> 1]
    ELSE [next |-> "send", result |-> handle_command(j.value), loads |-> 0]

\* handle_client, lines 96-112: the read loop ends on a newline or on EOF with
\* the bytes d buffered; they are parsed and dispatched. Nothing between the
\* end of the read and the first blocking call reads shared state.
handle_client(c, d) ==
  /\ UNCHANGED <<session_vars, input_vars, thread_vars, other_vars, slept, source>>
  /\ pc[c] = "recv"
  /\ executed' = [executed EXCEPT ![c] =
         IF dispatch(d).loads = 1
           THEN exec_module(str(get(json_loads(d).value, "scenario", PyNone)), source,
                            {str(get(data[o].cmd, "scenario", PyNone)) :
                               o \in {o \in Conns : executed[o] # <<>>}})
           ELSE <<>>]
  /\ data' = [data EXCEPT ![c] = d]
  /\ pc' = [pc EXCEPT ![c] = dispatch(d).next]
  /\ result' = [result EXCEPT ![c] = dispatch(d).result]
  /\ loads' = [loads EXCEPT ![c] = @ + dispatch(d).loads]
  /\ UNCHANGED <<sent, closed, screencast,
                 ran, starts, stops, start_ret, stop_ret, pending>>

\* handle_command, line 57
\* Mutant of output_path: the command's output is ignored.
output_path_default(cmd) == "/tmp/recording.webm"

\* handle_command, line 57: cmd.get("output", "/tmp/recording.webm").
output_path(cmd) == get(cmd, "output", "/tmp/recording.webm")

\* Mutant of record_start: the result of start() is not tested.
record_start_unchecked(c, bus, svc) ==
  /\ UNCHANGED <<session_vars, input_vars, thread_vars, other_vars, slept, source, executed>>
  /\ pc[c] = "start"
  /\ LET r == Screencast_start(Screencast_init, output_path(data[c].cmd), bus, svc)
     IN /\ screencast' = [screencast EXCEPT ![c] = r.self]
        /\ starts' = [starts EXCEPT ![c] = @ + r.calls]
        /\ start_ret' = [start_ret EXCEPT ![c] = r.ret]
        /\ IF r.ret # "raise"
             THEN /\ pc' = [pc EXCEPT ![c] = "pre"]
                  /\ UNCHANGED result
             ELSE /\ pc' = [pc EXCEPT ![c] = "send"]
                  /\ result' = [result EXCEPT ![c] = error(<<"GLib.Error">>)]
  /\ UNCHANGED <<data, sent, closed, ran, stops, loads, stop_ret, pending>>

\* handle_command, lines 66-69: Screencast() and start(output_path).
record_start(c, bus, svc) ==
  /\ UNCHANGED <<session_vars, input_vars, thread_vars, other_vars, slept, source, executed>>
  /\ pc[c] = "start"
  /\ LET r == Screencast_start(Screencast_init, output_path(data[c].cmd), bus, svc)
     IN /\ screencast' = [screencast EXCEPT ![c] = r.self]
        /\ starts' = [starts EXCEPT ![c] = @ + r.calls]
        /\ start_ret' = [start_ret EXCEPT ![c] = r.ret]
        /\ IF r.ret = "True"
             THEN /\ pc' = [pc EXCEPT ![c] = "pre"]
                  /\ UNCHANGED result
             ELSE /\ pc' = [pc EXCEPT ![c] = "send"]
                  /\ result' = [result EXCEPT ![c] =
                       IF r.ret = "False" THEN error(<<"Failed to start recording">>)
                       ELSE error(<<"GLib.Error">>)]
  /\ UNCHANGED <<data, sent, closed, ran, stops, loads, stop_ret, pending>>

\* cmd.get("pre_delay", 1.0), cmd.get("post_delay", 1.0): the default, in seconds.
DefaultDelay == 1

\* handle_command, line 72: time.sleep(pre_delay) returns.
pre_delay(c) ==
  /\ UNCHANGED <<session_vars, input_vars, thread_vars, other_vars, source, executed>>
  /\ pc[c] = "pre"
  /\ slept' = [slept EXCEPT ![c] = Append(@, get(data[c].cmd, "pre_delay", DefaultDelay))]
  /\ pc' = [pc EXCEPT ![c] = "run"]
  /\ UNCHANGED <<data, result, sent, closed, screencast,
                 ran, starts, stops, loads, start_ret, stop_ret, pending>>

\* handle_command, line 73: scenario.run() returns or raises.
RunOutcomes == {"returned", "raised"}

\* str(e) of the exception a failing run() raises.
RunError == <<"scenario failed">>

\* scenario.run() of the module a record command loaded: a run attribute that
\* is not callable, or that needs an argument, makes the call raise TypeError.
scenario_kind(cmd) == SCENARIOS_DIR[str(get(cmd, "scenario", PyNone))]
run_outcomes(kind) == IF kind = "run" THEN RunOutcomes ELSE {"raised"}
run_error(kind) ==
  IF kind = "run_not_callable" THEN <<"'int' object is not callable">>
  ELSE IF kind = "run_needs_args"
    THEN <<"run() missing 1 required positional argument: 'x'">>
  ELSE RunError

\* Mutant of run: no finally clause, a raising run() skips stop().
run_no_finally(c, outcome) ==
  /\ UNCHANGED <<session_vars, input_vars, thread_vars, other_vars, slept, source, executed>>
  /\ pc[c] = "run"
  /\ ran' = [ran EXCEPT ![c] = outcome]
  /\ IF outcome = "returned"
       THEN pc' = [pc EXCEPT ![c] = "post"] /\ UNCHANGED <<pending, result>>
       ELSE /\ pc' = [pc EXCEPT ![c] = "send"]
            /\ pending' = [pending EXCEPT ![c] = RunError]
            /\ result' = [result EXCEPT ![c] = error(RunError)]
  /\ UNCHANGED <<data, sent, closed, screencast,
                 starts, stops, loads, start_ret, stop_ret>>

\* Mutant of run: a raising run() is followed by the post_delay sleep.
run_then_sleep(c, outcome) ==
  /\ UNCHANGED <<session_vars, input_vars, thread_vars, other_vars, slept, source, executed>>
  /\ pc[c] = "run"
  /\ ran' = [ran EXCEPT ![c] = outcome]
  /\ pc' = [pc EXCEPT ![c] = "post"]
  /\ pending' = [pending EXCEPT ![c] = IF outcome = "returned" THEN @ ELSE RunError]
  /\ UNCHANGED <<data, result, sent, closed, screencast,
                 starts, stops, loads, start_ret, stop_ret>>

run(c, outcome) ==
  /\ UNCHANGED <<session_vars, input_vars, thread_vars, other_vars, slept, source, executed>>
  /\ pc[c] = "run"
  /\ outcome \in run_outcomes(scenario_kind(data[c].cmd))
  /\ ran' = [ran EXCEPT ![c] = outcome]
  /\ IF outcome = "returned"
       THEN pc' = [pc EXCEPT ![c] = "post"] /\ UNCHANGED pending
       ELSE /\ pc' = [pc EXCEPT ![c] = "stop"]
            /\ pending' = [pending EXCEPT ![c] = run_error(scenario_kind(data[c].cmd))]
  /\ UNCHANGED <<data, result, sent, closed, screencast,
                 starts, stops, loads, start_ret, stop_ret>>

\* handle_command, line 74: time.sleep(post_delay) returns.
post_delay(c) ==
  /\ UNCHANGED <<session_vars, input_vars, thread_vars, other_vars, source, executed>>
  /\ pc[c] = "post"
  /\ slept' = [slept EXCEPT ![c] = Append(@, get(data[c].cmd, "post_delay", DefaultDelay))]
  /\ pc' = [pc EXCEPT ![c] = "stop"]
  /\ UNCHANGED <<data, result, sent, closed, screencast,
                 ran, starts, stops, loads, start_ret, stop_ret, pending>>

\* Mutant of record_result: the propagating exception is swallowed.
record_result_swallowed(cmd, exc) ==
  [status |-> "ok", output |-> get(cmd, "output", "/tmp/recording.webm")]

\* The response of a record command once the finally clause is done:
\* handle_command line 78 when nothing propagates, else handle_client
\* lines 111-112 with the message of the propagating exception.
record_result(cmd, exc) ==
  IF exc = <<>> THEN [status |-> "ok", output |-> output_path(cmd)]
  ELSE error(exc)

\* handle_command, lines 75-78: the finally clause calls stop().
record_stop(c, bus, svc) ==
  /\ UNCHANGED <<session_vars, input_vars, thread_vars, other_vars, slept, source, executed>>
  /\ pc[c] = "stop"
  /\ LET r == Screencast_stop(screencast[c], bus, svc)
         exc == IF r.ret = "raise" THEN <<"GLib.Error">> ELSE pending[c]
     IN /\ screencast' = [screencast EXCEPT ![c] = r.self]
        /\ stops' = [stops EXCEPT ![c] = @ + 1]
        /\ stop_ret' = [stop_ret EXCEPT ![c] = r.ret]
        /\ pending' = [pending EXCEPT ![c] = exc]
        /\ result' = [result EXCEPT ![c] = record_result(data[c].cmd, exc)]
  /\ pc' = [pc EXCEPT ![c] = "send"]
  /\ UNCHANGED <<data, sent, closed, ran, starts, loads, start_ret>>

\* handle_client, line 114: conn.sendall(json.dumps(result) + b"\n").
\* Mutant of send: responses are held back while a record command runs.
send_when_idle(c) ==
  /\ UNCHANGED <<session_vars, input_vars, thread_vars, other_vars, slept, source, executed>>
  /\ pc[c] = "send"
  /\ \A o \in Conns \ {c} : pc[o] \notin {"pre", "run", "post", "stop"}
  /\ sent' = [sent EXCEPT ![c] = @ + 1]
  /\ pc' = [pc EXCEPT ![c] = "close"]
  /\ UNCHANGED <<data, result, closed, screencast,
                 ran, starts, stops, loads, start_ret, stop_ret, pending>>

send(c) ==
  /\ UNCHANGED <<session_vars, input_vars, thread_vars, other_vars, slept, source, executed>>
  /\ pc[c] = "send"
  /\ sent' = [sent EXCEPT ![c] = @ + 1]
  /\ pc' = [pc EXCEPT ![c] = "close"]
  /\ UNCHANGED <<data, result, closed, screencast,
                 ran, starts, stops, loads, start_ret, stop_ret, pending>>

\* handle_client, lines 116-118: conn.close() in the finally clause.
close(c) ==
  /\ UNCHANGED <<session_vars, input_vars, thread_vars, other_vars, slept, source, executed>>
  /\ pc[c] = "close"
  /\ closed' = [closed EXCEPT ![c] = TRUE]
  /\ pc' = [pc EXCEPT ![c] = "done"]
  /\ UNCHANGED <<data, result, sent, screencast,
                 ran, starts, stops, loads, start_ret, stop_ret, pending>>

Next ==
  \/ \E c \in Conns : accept(c)
  \/ \E c \in Conns, d \in Requests : handle_client(c, d)
  \/ \E c \in Conns, bus \in BusOutcomes, svc \in SvcOutcomes : record_start(c, bus, svc)
  \/ \E c \in Conns : pre_delay(c)
  \/ \E c \in Conns, o \in RunOutcomes : run(c, o)
  \/ \E c \in Conns : post_delay(c)
  \/ \E c \in Conns, bus \in BusOutcomes, svc \in SvcOutcomes : record_stop(c, bus, svc)
  \/ \E c \in Conns : send(c)
  \/ \E c \in Conns : close(c)

Spec == Init /\ [][Next]_vars

\* ------------------------------------------- record commands with parameters
\* The daemon serving only record commands of loadable scenarios, with output,
\* pre_delay and post_delay given or omitted (delays are numbers >= 0, as
\* time.sleep requires).
RecordRequests ==
  { [text |-> "object", nl |-> TRUE, cmd |-> c] : c \in
      { [action |-> "record", scenario |-> "basic_usage"],
        [action |-> "record", scenario |-> "basic_usage",
         output |-> "/tmp//x.webm", pre_delay |-> 0, post_delay |-> 2],
        [action |-> "record", scenario |-> "multi_monitor",
         output |-> "/tmp/x.webm", pre_delay |-> 2] } }

RecordNext ==
  \/ \E c \in Conns : accept(c)
  \/ \E c \in Conns, d \in RecordRequests : handle_client(c, d)
  \/ \E c \in Conns, bus \in BusOutcomes, svc \in SvcOutcomes : record_start(c, bus, svc)
  \/ \E c \in Conns : pre_delay(c)
  \/ \E c \in Conns, o \in RunOutcomes : run(c, o)
  \/ \E c \in Conns : post_delay(c)
  \/ \E c \in Conns, bus \in BusOutcomes, svc \in SvcOutcomes : record_stop(c, bus, svc)
  \/ \E c \in Conns : send(c)
  \/ \E c \in Conns : close(c)

RecordSpec == Init /\ [][RecordNext]_vars

\* Mutant of handler_step: the handlers are not threads of their own; a
\* command is carried on only while no accepted connection is still being read.
handler_step_serial(c) ==
  /\ \A o \in Conns \ {c} : pc[o] # "recv"
  /\ \/ \E bus \in BusOutcomes, svc \in SvcOutcomes : record_start(c, bus, svc)
     \/ pre_delay(c)
     \/ \E o \in RunOutcomes : run(c, o)
     \/ post_delay(c)
     \/ \E bus \in BusOutcomes, svc \in SvcOutcomes : record_stop(c, bus, svc)
     \/ send(c)
     \/ close(c)

\* The steps of the handler thread of connection c once its request is read.
\* run_server starts one thread per connection (lines 133-135); a thread only
\* waits in time.sleep, in scenario.run() and in calls of the recording
\* service, so while these return the thread takes its next step.
handler_step(c) ==
  \/ \E bus \in BusOutcomes, svc \in SvcOutcomes : record_start(c, bus, svc)
  \/ pre_delay(c)
  \/ \E o \in RunOutcomes : run(c, o)
  \/ post_delay(c)
  \/ \E bus \in BusOutcomes, svc \in SvcOutcomes : record_stop(c, bus, svc)
  \/ send(c)
  \/ close(c)

\* The daemon serving record commands of one scenario, every handler thread
\* being scheduled.
FairRequests ==
  { [text |-> "object", nl |-> TRUE,
     cmd |-> [action |-> "record", scenario |-> "basic_usage"]] }

FairNext ==
  \/ \E c \in Conns : accept(c)
  \/ \E c \in Conns, d \in FairRequests : handle_client(c, d)
  \/ \E c \in Conns : handler_step(c)

FairRecordSpec ==
  Init /\ [][FairNext]_vars /\ \A c \in Conns : WF_vars(handler_step(c))

\* ------------------------------------- record commands, scenarios by kind
\* The daemon serving record commands that name a scenario of each kind of
\* run attribute.
LoadRequests ==
  { [text |-> "object", nl |-> TRUE,
     cmd |-> [action |-> "record", scenario |-> s]] :
      s \in {"basic_usage", "norun", "notcallable", "needsargs"} }

LoadNext ==
  \/ \E c \in Conns : accept(c)
  \/ \E c \in Conns, d \in LoadRequests : handle_client(c, d)
  \/ \E c \in Conns, bus \in BusOutcomes, svc \in SvcOutcomes : record_start(c, bus, svc)
  \/ \E c \in Conns : pre_delay(c)
  \/ \E c \in Conns, o \in RunOutcomes : run(c, o)
  \/ \E c \in Conns : post_delay(c)
  \/ \E c \in Conns, bus \in BusOutcomes, svc \in SvcOutcomes : record_stop(c, bus, svc)
  \/ \E c \in Conns : send(c)
  \/ \E c \in Conns : close(c)

LoadSpec == Init /\ [][LoadNext]_vars

\* ------------------------------------------- scenario files being edited
\* Somebody saves a scenario file with new content while the daemon runs.
edit_scenario ==
  /\ source < MaxEdits
  /\ source' = source + 1
  /\ UNCHANGED <<pc, data, result, sent, closed, screencast, ran, starts, stops,
                 loads, start_ret, stop_ret, pending, slept, executed,
                 session_vars, input_vars, thread_vars, other_vars>>

ReloadRequests ==
  { [text |-> "object", nl |-> TRUE,
     cmd |-> [action |-> "record", scenario |-> s]] :
      s \in {"basic_usage", "does_not_exist"} }

\* The recording service answers every call here.
ReloadNext ==
  \/ edit_scenario
  \/ \E c \in Conns : accept(c)
  \/ \E c \in Conns, d \in ReloadRequests : handle_client(c, d)
  \/ \E c \in Conns, svc \in {"success", "refused"} : record_start(c, "ok", svc)
  \/ \E c \in Conns : pre_delay(c)
  \/ \E c \in Conns : run(c, "returned")
  \/ \E c \in Conns : post_delay(c)
  \/ \E c \in Conns : record_stop(c, "ok", "success")
  \/ \E c \in Conns : send(c)
  \/ \E c \in Conns : close(c)

ReloadSpec == Init /\ [][ReloadNext]_vars

\* ---------------------------------------------- requests that are no object
\* The daemon serving requests that are valid JSON but no object, requests
\* that are not UTF-8, and pings.
MalformedRequests ==
  { [text |-> t, nl |-> TRUE, cmd |-> EmptyDict] :
      t \in DOMAIN NonObjects \cup {"not_utf8"} }
  \cup { [text |-> "object", nl |-> TRUE, cmd |-> [action |-> "ping"]] }

MalformedNext ==
  \/ \E c \in Conns : accept(c)
  \/ \E c \in Conns, d \in MalformedRequests : handle_client(c, d)
  \/ \E c \in Conns : send(c)
  \/ \E c \in Conns : close(c)

MalformedSpec == Init /\ [][MalformedNext]_vars

\* --------------------------------------- quick commands beside a recording
\* The daemon serving ping and list_scenarios commands and one kind of record
\* command, each on its own connection thread.
QuickRequests ==
  {d \in Requests : d.text = "object"
                     /\ get(d.cmd, "action", PyNone) \in {"ping", "list_scenarios"}}

MixedRequests ==
  QuickRequests
    \cup {[text |-> "object", nl |-> TRUE,
           cmd |-> [action |-> "record", scenario |-> "basic_usage"]]}

MixedNext ==
  \/ \E c \in Conns : accept(c)
  \/ \E c \in Conns, d \in MixedRequests : handle_client(c, d)
  \/ \E c \in Conns, bus \in BusOutcomes, svc \in SvcOutcomes : record_start(c, bus, svc)
  \/ \E c \in Conns : pre_delay(c)
  \/ \E c \in Conns, o \in RunOutcomes : run(c, o)
  \/ \E c \in Conns : post_delay(c)
  \/ \E c \in Conns, bus \in BusOutcomes, svc \in SvcOutcomes : record_stop(c, bus, svc)
  \/ \E c \in Conns : send(c)
  \/ \E c \in Conns : close(c)

MixedSpec == Init /\ [][MixedNext]_vars

\* ---------------------------------------------------- one Screencast, driven
\* A caller holding one Screencast and calling start() and stop() on it in any
\* order (the usage lib/__init__.py exports the class for); the recording
\* service answers each call with any of SvcOutcomes.
Paths == {"/tmp/recording.webm", "/tmp/x.webm", "/tmp//x.webm"}

SessionInit == Init

session_start(p, bus, svc) ==
  /\ ops < MaxOps
  /\ LET r == Screencast_start(session, p, bus, svc)
     IN /\ session' = r.self
        /\ ret' = r.ret
        /\ svc_starts' = svc_starts + r.calls
        /\ active' = active + (IF r.ret = "True" THEN 1 ELSE 0)
        /\ svc_reply' = IF r.calls = 1 THEN svc ELSE "none"
        /\ bus_raised' = (r.ret = "raise")
  /\ op' = "start"
  /\ ops' = ops + 1
  /\ UNCHANGED <<svc_stops, daemon_vars, other_vars, input_vars, thread_vars>>

session_stop(bus, svc) ==
  /\ ops < MaxOps
  /\ LET r == Screencast_stop(session, bus, svc)
     IN /\ session' = r.self
        /\ ret' = r.ret
        /\ svc_stops' = svc_stops + r.calls
        /\ active' = active - (IF r.ret = "True" THEN 1 ELSE 0)
        /\ svc_reply' = IF r.calls = 1 THEN svc ELSE "none"
        /\ bus_raised' = (r.ret = "raise")
  /\ op' = "stop"
  /\ ops' = ops + 1
  /\ UNCHANGED <<svc_starts, daemon_vars, other_vars, input_vars, thread_vars>>

SessionNext ==
  \/ \E p \in Paths, bus \in BusOutcomes, svc \in SvcOutcomes : session_start(p, bus, svc)
  \/ \E bus \in BusOutcomes, svc \in SvcOutcomes : session_stop(bus, svc)

SessionSpec == SessionInit /\ [][SessionNext]_vars

\* ------------------------------------------------ input engine, the calls
\* smooth_move(to_x, to_y, steps): the whole call.  steps = 0 raises
\* ZeroDivisionError at `t = i / steps` in the first iteration.  bad is the
\* iteration (index i + 1 of the walk) in which the device write raises.
smooth_move(to, steps, uinput, xq, lo, bad) ==
  /\ calls < MaxMoves
  /\ IS_WAYLAND => xq = "ok"
  /\ uinput_device # PyNone => uinput = "ok"
  /\ LET from == get_mouse_position(last, pointer, IS_WAYLAND, xq)
         total == <<to[1] - from[1], to[2] - from[2]>>
         g == get_uinput_device(uinput_device, created, uinput)
         uinput_available == g.ret # PyNone
     IN /\ bad # NoStep => uinput_available /\ steps >= 1
        /\ is_low_choice(lo, total, steps)
        /\ LET w == IF steps = 0 THEN NoWalk
                    ELSE smooth_move_loop(0, steps, total, from, lo, NoWalk)
               d == sum_pairs(w.rel, bad + 1)
           IN /\ uinput_device' = g.device
              /\ attempts' = attempts + g.tried
              /\ created' = created + g.made
              /\ pointer' = IF steps = 0 THEN pointer
                            ELSE IF uinput_available
                              THEN <<pointer[1] + d[1], pointer[2] + d[2]>>
                            ELSE w.abs[Len(w.abs)]
              /\ last' = IF steps = 0 THEN last ELSE update_position(to[1], to[2])
              /\ call' = [op |-> "move", from |-> from, to |-> to, steps |-> steps,
                          avail |-> uinput_available,
                          rel |-> IF uinput_available THEN w.rel ELSE <<>>,
                          abs |-> IF uinput_available THEN <<>> ELSE w.abs,
                          ret |-> IF steps = 0 THEN "raise" ELSE "None",
                          button |-> 0, events |-> <<>>]
  /\ calls' = calls + 1
  /\ UNCHANGED <<IS_WAYLAND, thread_vars, daemon_vars, other_vars, session_vars>>

\* _click_uinput(button) on the handle _get_uinput_device returned: whether it
\* returned True and the events the device took.
btn_map(button) ==
  IF button = 1 THEN "BTN_LEFT" ELSE IF button = 2 THEN "BTN_MIDDLE"
  ELSE IF button = 3 THEN "BTN_RIGHT" ELSE "BTN_LEFT"

\* Mutant of click_uinput: the result is False even when both writes went
\* through.
click_uinput_false(device, button, wr) ==
  IF device = PyNone \/ wr = "press" THEN [ret |-> FALSE, events |-> <<>>]
  ELSE IF wr = "release"
    THEN [ret |-> FALSE, events |-> <<"uinput press " \o btn_map(button)>>]
  ELSE [ret |-> FALSE, events |-> <<"uinput press " \o btn_map(button),
                                    "uinput release " \o btn_map(button)>>]

click_uinput(device, button, wr) ==
  IF device = PyNone THEN [ret |-> FALSE, events |-> <<>>]
  ELSE IF wr = "press" THEN [ret |-> FALSE, events |-> <<>>]
  ELSE IF wr = "release"
    THEN [ret |-> FALSE, events |-> <<"uinput press " \o btn_map(button)>>]
  ELSE [ret |-> TRUE, events |-> <<"uinput press " \o btn_map(button),
                                   "uinput release " \o btn_map(button)>>]

\* The argument list click() hands to _mouse_tool.
button_map(button) ==
  IF button = 1 THEN "0x40" ELSE IF button = 2 THEN "0x41"
  ELSE IF button = 3 THEN "0x42" ELSE "0x40"

tool_click(button, wayland) ==
  IF wayland THEN "ydotool click " \o button_map(button)
  ELSE "xdotool click " \o ToString(button)

\* click(button), lines 187-195, on the handle _get_uinput_device returned: the
\* events the device took, then the tool call if _click_uinput returned False.
click_events(device, button, wr, wayland) ==
  LET r == click_uinput(device, button, wr)
  IN IF r.ret THEN r.events ELSE Append(r.events, tool_click(button, wayland))

\* A whole call of click(button), recorded under the name of the function the
\* scenario called.
click_as(name, button, uinput, wr) ==
  /\ calls < MaxMoves
  /\ uinput_device # PyNone => uinput = "ok"
  /\ LET g == get_uinput_device(uinput_device, created, uinput)
     IN /\ wr # "none" => g.ret # PyNone
        /\ uinput_device' = g.device
        /\ attempts' = attempts + g.tried
        /\ created' = created + g.made
        /\ call' = [NoCall EXCEPT !.op = name, !.button = button,
                      !.avail = (g.ret # PyNone), !.ret = "None",
                      !.events = click_events(g.ret, button, wr, IS_WAYLAND)]
  /\ calls' = calls + 1
  /\ UNCHANGED <<IS_WAYLAND, last, pointer, thread_vars, daemon_vars, other_vars, session_vars>>

\* click(button): the whole call.
click(button, uinput, wr) == click_as("click", button, uinput, wr)

\* right_click(): click(3).
right_click(uinput, wr) == click_as("right_click", 3, uinput, wr)

\* The one tool call of a function that goes to _mouse_tool alone.
tool(wayland) == IF wayland THEN "ydotool" ELSE "xdotool"

\* double_click(): two tool clicks on Wayland, one repeated tool click on X11.
double_click_events(wayland) ==
  IF wayland THEN <<"ydotool click 0x40", "ydotool click 0x40">>
  ELSE <<"xdotool click --repeat 2 --delay 50 1">>

\* Mutant of mouse_down_events: the press is written to the uinput device.
mouse_down_events_uinput(button, wayland) ==
  <<"uinput press " \o btn_map(button)>>

\* mouse_down(button), mouse_up(button).
mouse_down_events(button, wayland) ==
  IF wayland THEN <<"ydotool mousedown " \o button_map(button)>>
  ELSE <<"xdotool mousedown " \o ToString(button)>>

mouse_up_events(button, wayland) ==
  IF wayland THEN <<"ydotool mouseup " \o button_map(button)>>
  ELSE <<"xdotool mouseup " \o ToString(button)>>

\* type_text(text, delay=0.05): str(int(delay * 1000)) is "50".
Texts == {"hello"}
type_text_events(text, wayland) ==
  <<tool(wayland) \o " type --delay 50 " \o text>>

\* key_press(*keys): "+".join(keys).
KeyLists == {<<"Return">>, <<"ctrl", "c">>}
RECURSIVE join(_)
join(keys) ==
  IF Len(keys) = 0 THEN ""
  ELSE IF Len(keys) = 1 THEN keys[1]
  ELSE keys[1] \o "+" \o join(Tail(keys))

key_press_events(keys, wayland) == <<tool(wayland) \o " key " \o join(keys)>>

\* A whole call of a function that only calls _mouse_tool.
tool_only(name, button, events) ==
  /\ calls < MaxMoves
  /\ call' = [NoCall EXCEPT !.op = name, !.button = button, !.ret = "None",
                !.events = events]
  /\ calls' = calls + 1
  /\ UNCHANGED <<IS_WAYLAND, last, pointer, uinput_device, attempts, created,
                 thread_vars, daemon_vars, other_vars, session_vars>>

double_click == tool_only("double_click", 1, double_click_events(IS_WAYLAND))
mouse_down(button) ==
  tool_only("mouse_down", button, mouse_down_events(button, IS_WAYLAND))
mouse_up(button) ==
  tool_only("mouse_up", button, mouse_up_events(button, IS_WAYLAND))
type_text(text) == tool_only("type_text", 0, type_text_events(text, IS_WAYLAND))
key_press(keys) == tool_only("key_press", 0, key_press_events(keys, IS_WAYLAND))

\* One scenario thread calling the input engine, on either session type.
InputSpecInit ==
  /\ OtherInit
  /\ DaemonInit
  /\ IS_WAYLAND \in BOOLEAN
  /\ InputInit
  /\ ThreadInit

InputNext ==
  \/ \E to \in Targets, steps \in StepCounts, uinput \in UInputOutcomes,
        xq \in XQueryOutcomes, lo \in NoStep..MaxSteps, bad \in WriteRaises :
        smooth_move(to, steps, uinput, xq, lo, bad)
  \/ \E button \in Buttons, uinput \in UInputOutcomes, wr \in ClickRaises :
        click(button, uinput, wr)
  \/ \E uinput \in UInputOutcomes, wr \in ClickRaises : right_click(uinput, wr)
  \/ double_click
  \/ \E button \in Buttons : mouse_down(button)
  \/ \E button \in Buttons : mouse_up(button)
  \/ \E text \in Texts : type_text(text)
  \/ \E keys \in KeyLists : key_press(keys)

InputSpec == InputSpecInit /\ [][InputNext]_vars

\* ------------------------------------------ input engine, several threads
\* Scenario executions on different connection threads calling
\* _get_uinput_device() (through smooth_move or click).  The test of line 22 and
\* the creation and assignment of line 34 are separate steps of a thread: no
\* lock is held between them.
get_uinput_device_check(th) ==
  /\ tpc[th] = "idle"
  /\ tcalls[th] < MaxMoves
  /\ tcalls' = [tcalls EXCEPT ![th] = @ + 1]
  /\ IF uinput_device # PyNone
       THEN /\ handle' = [handle EXCEPT ![th] = uinput_device]
            /\ tpc' = [tpc EXCEPT ![th] = "write"]
       ELSE /\ tpc' = [tpc EXCEPT ![th] = "create"]
            /\ UNCHANGED handle
  /\ UNCHANGED <<IS_WAYLAND, last, pointer, uinput_device, attempts, created,
                 call, calls, written, spc, sret, daemon_vars, other_vars, session_vars>>

get_uinput_device_create(th, outcome) ==
  /\ tpc[th] = "create"
  /\ attempts' = attempts + 1
  /\ IF outcome = "ok"
       THEN /\ created' = created + 1
            /\ uinput_device' = UInput(created + 1)
            /\ handle' = [handle EXCEPT ![th] = UInput(created + 1)]
       ELSE /\ handle' = [handle EXCEPT ![th] = PyNone]
            /\ UNCHANGED <<created, uinput_device>>
  /\ tpc' = [tpc EXCEPT ![th] = "write"]
  /\ UNCHANGED <<IS_WAYLAND, last, pointer, call, calls, tcalls, written,
                 spc, sret, daemon_vars, other_vars, session_vars>>

\* The caller's device.write / device.syn on the handle it was given, or its
\* tool call when it was given None.
device_write(th) ==
  /\ tpc[th] = "write"
  /\ written' = IF handle[th] = PyNone THEN written ELSE written \cup {handle[th]}
  /\ tpc' = [tpc EXCEPT ![th] = "idle"]
  /\ UNCHANGED <<IS_WAYLAND, last, pointer, uinput_device, attempts, created,
                 call, calls, handle, tcalls, spc, sret, daemon_vars, other_vars, session_vars>>

DeviceNext ==
  \/ \E th \in Threads : get_uinput_device_check(th)
  \/ \E th \in Threads, outcome \in UInputOutcomes : get_uinput_device_create(th, outcome)
  \/ \E th \in Threads : device_write(th)

DeviceSpec == Init /\ [][DeviceNext]_vars

\* ---------------------------------------- one Screencast, several threads
\* Threads calling start() on the same Screencast.  The test of
\* self._recording (lines 52-53) and the rest of the method, which calls the
\* service and sets self._recording (lines 55-99), are separate steps of a
\* thread: the method takes no lock and call_sync blocks.
start_check(th) ==
  /\ spc[th] = "idle"
  /\ ops < MaxOps
  /\ ops' = ops + 1
  /\ IF session.recording
       THEN /\ sret' = [sret EXCEPT ![th] = "False"]
            /\ UNCHANGED spc
       ELSE /\ spc' = [spc EXCEPT ![th] = "call"]
            /\ UNCHANGED sret
  /\ UNCHANGED <<session, op, ret, svc_starts, svc_stops, active, svc_reply,
                 bus_raised, tpc, handle, tcalls, written, daemon_vars, other_vars, input_vars>>

start_call(th, p, bus, svc) ==
  /\ spc[th] = "call"
  /\ LET r == start_unguarded(session, p, bus, svc)
     IN /\ session' = r.self
        /\ svc_starts' = svc_starts + r.calls
        /\ active' = active + (IF r.ret = "True" THEN 1 ELSE 0)
        /\ sret' = [sret EXCEPT ![th] = r.ret]
  /\ spc' = [spc EXCEPT ![th] = "idle"]
  /\ UNCHANGED <<op, ret, svc_stops, svc_reply, bus_raised, ops,
                 tpc, handle, tcalls, written, daemon_vars, other_vars, input_vars>>

RaceNext ==
  \/ \E th \in Threads : start_check(th)
  \/ \E th \in Threads, p \in Paths, bus \in BusOutcomes, svc \in SvcOutcomes :
        start_call(th, p, bus, svc)

RaceSpec == Init /\ [][RaceNext]_vars

\* -------------------------------------------- start(output_path, options)
\* A caller such as record.py's main calling start(output_path, options) on
\* its Screencast: lines 52-99 with the options block of lines 59-76, which
\* stands after _get_proxy and outside the try of line 78.
start_options(p, bus, svc) ==
  /\ ops < MaxOps
  /\ LET r == Screencast_start(session, p, bus, svc)
         b == build_options(options, <<>>)
         reached == ~session.recording /\ r.ret # "raise"
     IN IF reached /\ b.raised
          THEN /\ session' = [session EXCEPT !.output_path = Path(p),
                                              !.proxy = r.self.proxy]
               /\ ret' = "raise"
               /\ built' = [raised |-> TRUE, sent |-> FALSE, opts |-> <<>>]
               /\ svc_reply' = "none"
               /\ bus_raised' = FALSE
               /\ UNCHANGED <<svc_starts, active>>
          ELSE /\ session' = r.self
               /\ ret' = r.ret
               /\ built' = IF reached
                             THEN [raised |-> FALSE, sent |-> TRUE, opts |-> b.opts]
                             ELSE NoBuilt
               /\ svc_starts' = svc_starts + r.calls
               /\ active' = active + (IF r.ret = "True" THEN 1 ELSE 0)
               /\ svc_reply' = IF r.calls = 1 THEN svc ELSE "none"
               /\ bus_raised' = (r.ret = "raise")
  /\ op' = "start"
  /\ ops' = ops + 1
  /\ UNCHANGED <<svc_stops, options, cpc, ccmd, returned, host_vars,
                 daemon_vars, input_vars, thread_vars>>

OptionsInit ==
  /\ options \in Options
  /\ built = NoBuilt
  /\ ClientInit
  /\ HostInit
  /\ DaemonInit
  /\ IS_WAYLAND = TRUE
  /\ InputInit
  /\ ThreadInit

OptionsNext ==
  \/ \E p \in Paths, bus \in BusOutcomes, svc \in SvcOutcomes : start_options(p, bus, svc)
  \/ \E bus \in BusOutcomes, svc \in SvcOutcomes : session_stop(bus, svc)

OptionsSpec == OptionsInit /\ [][OptionsNext]_vars

\* ------------------------------------------------- clients and the daemon
\* send_command, lines 19-20: connect and sendall(json.dumps(cmd) + b"\n").
client_send(c, cmd) ==
  /\ cpc[c] = "idle"
  /\ pc[c] = "recv"
  /\ cpc' = [cpc EXCEPT ![c] = "sent"]
  /\ ccmd' = [ccmd EXCEPT ![c] = cmd]
  /\ UNCHANGED <<returned, options, built, host_vars,
                 daemon_vars, session_vars, input_vars, thread_vars>>

\* handle_client on the bytes of c's client, which the transport delivers cut
\* after token j.
client_handled(c, j) ==
  /\ cpc[c] = "sent"
  /\ handle_client(c, to_request(read_loop(split(request_bytes(ccmd[c]), j), <<>>)))

\* send_command, lines 22-31: the read loop on the daemon's response, cut after
\* token j, and json.loads of it.
client_recv(c, j) ==
  /\ cpc[c] = "sent"
  /\ sent[c] = 1
  /\ LET r == json_loads_text(
                strip(read_loop(split(response_bytes(result[c]), j), <<>>)))
     IN /\ cpc' = [cpc EXCEPT ![c] = IF r.ok THEN "returned" ELSE "raised"]
        /\ returned' = [returned EXCEPT ![c] = r.value]
  /\ UNCHANGED <<ccmd, options, built, host_vars,
                 daemon_vars, session_vars, input_vars, thread_vars>>

\* Where the transport may cut a message of at most this many tokens.
Cuts == 1..8

\* The recording service answers every call here.
ClientNext ==
  \/ \E c \in Conns : accept(c)
  \/ \E c \in Conns, cmd \in ClientCommands : client_send(c, cmd)
  \/ \E c \in Conns, j \in Cuts : client_handled(c, j)
  \/ \E c \in Conns, svc \in {"success", "refused"} : record_start(c, "ok", svc)
  \/ \E c \in Conns : pre_delay(c)
  \/ \E c \in Conns, o \in RunOutcomes : run(c, o)
  \/ \E c \in Conns : post_delay(c)
  \/ \E c \in Conns : record_stop(c, "ok", "success")
  \/ \E c \in Conns : send(c)
  \/ \E c \in Conns : close(c)
  \/ \E c \in Conns, j \in Cuts : client_recv(c, j)

ClientSpec == Init /\ [][ClientNext]_vars

\* ------------------------------------------------------- host orchestrator
\* main up to the loops (lines 224-255): the argument check, wait_for_gnome,
\* sync_guest_scripts and check_daemon each end the process with a non-zero
\* status when they fail (pre = "failed").
host_main(args, pre) ==
  /\ hpc = "main"
  /\ hargs' = args
  /\ IF pre = "ok"
       THEN /\ hpairs' = pairs_of(args)
            /\ hpc' = "record"
            /\ UNCHANGED hexit
       ELSE /\ hpc' = "exit"
            /\ hexit' = 1
            /\ UNCHANGED hpairs
  /\ UNCHANGED <<hlogs, hresults, options, built, cpc, ccmd, returned,
                 daemon_vars, session_vars, input_vars, thread_vars>>

\* run_scenario returns gif (PyNone for None) and main appends it to results
\* (line 261); the loops go on to the next pair or end.
host_return(gif) ==
  /\ hresults' = Append(hresults, gif)
  /\ hpc' = IF Len(hresults) + 1 < Len(hpairs) THEN "record" ELSE "summary"
  /\ UNCHANGED hexit

\* run_scenario, lines 171-182: the record command and the test of its status.
\* socket.error is caught (line 206); a response that is no JSON raises
\* JSONDecodeError, which nothing catches.
host_record(answer) ==
  /\ hpc = "record"
  /\ hlogs' = Append(hlogs, <<"record " \o answer>>)
  /\ IF answer = "ok" THEN hpc' = "convert" /\ UNCHANGED <<hresults, hexit>>
     ELSE IF answer = "JSONDecodeError"
       THEN hpc' = "exit" /\ hexit' = 1 /\ UNCHANGED hresults
     ELSE host_return(PyNone)
  /\ UNCHANGED <<hargs, hpairs, options, built, cpc, ccmd, returned,
                 daemon_vars, session_vars, input_vars, thread_vars>>

\* run_scenario, lines 184-193: convert_gif.py over ssh, check=False.
host_convert(returncode) ==
  /\ hpc = "convert"
  /\ hlogs' = [hlogs EXCEPT ![Len(hlogs)] = Append(@, "convert " \o ToString(returncode))]
  /\ IF returncode = 0 THEN hpc' = "copy" /\ UNCHANGED <<hresults, hexit>>
     ELSE host_return(PyNone)
  /\ UNCHANGED <<hargs, hpairs, options, built, cpc, ccmd, returned,
                 daemon_vars, session_vars, input_vars, thread_vars>>

\* run_scenario, lines 195-197: scp of the GIF, check=True; CalledProcessError
\* is caught (line 209).
host_copy(scp) ==
  /\ hpc = "copy"
  /\ hlogs' = [hlogs EXCEPT ![Len(hlogs)] = Append(@, "scp gif " \o scp)]
  /\ IF scp # "ok" THEN host_return(PyNone)
     ELSE IF hargs.keep_webm THEN hpc' = "webm" /\ UNCHANGED <<hresults, hexit>>
     ELSE host_return(local_gif(hpairs[Len(hlogs)]))
  /\ UNCHANGED <<hargs, hpairs, options, built, cpc, ccmd, returned,
                 daemon_vars, session_vars, input_vars, thread_vars>>

\* run_scenario, lines 199-201: with --keep-webm, scp of the recording.
host_copy_webm(scp) ==
  /\ hpc = "webm"
  /\ hlogs' = [hlogs EXCEPT ![Len(hlogs)] = Append(@, "scp webm " \o scp)]
  /\ IF scp # "ok" THEN host_return(PyNone)
     ELSE host_return(local_gif(hpairs[Len(hlogs)]))
  /\ UNCHANGED <<hargs, hpairs, options, built, cpc, ccmd, returned,
                 daemon_vars, session_vars, input_vars, thread_vars>>

\* main, lines 263-277: the summary and the exit status.
host_summary ==
  /\ hpc = "summary"
  /\ hexit' = exit_status(hresults)
  /\ hpc' = "exit"
  /\ UNCHANGED <<hargs, hpairs, hlogs, hresults, options, built, cpc, ccmd, returned,
                 daemon_vars, session_vars, input_vars, thread_vars>>

HostNext ==
  \/ \E args \in HostArgs, pre \in {"ok", "failed"} : host_main(args, pre)
  \/ \E answer \in RecordAnswers : host_record(answer)
  \/ \E returncode \in ReturnCodes : host_convert(returncode)
  \/ \E scp \in ScpOutcomes : host_copy(scp)
  \/ \E scp \in ScpOutcomes : host_copy_webm(scp)
  \/ host_summary

HostSpec == Init /\ [][HostNext]_vars

\* ------------------------------------------------------------------- claims
status(r) == get(r, "status", "none")
action_of(c) == get(data[c].cmd, "action", PyNone)
is_object(c) == data[c].text = "object"
answered(c) == pc[c] \in {"send", "close", "done"}
in_recording(c) == pc[c] \in {"pre", "run", "post", "stop"}
Pong == [status |-> "ok", message |-> <<"pong">>]

\* C1: a record command whose start() runs while another record command is
\* between its successful start and its stop is answered with status "error",
\* and leaves the other command's session as it was.
C1_ConcurrentRecordRejected ==
  [][\A c \in Conns :
       (pc[c] = "start" /\ pc'[c] # "start"
        /\ \E o \in Conns \ {c} : in_recording(o) /\ is_recording(screencast[o]))
       => (status(result'[c]) = "error"
           /\ \A o \in Conns \ {c} : screencast'[o] = screencast[o])]_vars

\* C2: at most one Screencast of the process has recording = TRUE.
C2_AtMostOneRecording ==
  Cardinality({c \in Conns : is_recording(screencast[c])}) <= 1

\* C3: once start() succeeded, the handler calls stop() exactly once: not before
\* run() has returned or raised, and before the response is built and sent.
C3_StopExactlyOnce ==
  \A c \in Conns :
    start_ret[c] = "True" =>
      /\ stops[c] <= 1
      /\ stops[c] = 1 => ran[c] \in {"returned", "raised"}
      /\ answered(c) => stops[c] = 1
      /\ sent[c] >= 1 => stops[c] = 1

C3_Witness ==
  \E c \in Conns :
    /\ start_ret[c] = "True" /\ ran[c] = "raised"
    /\ stops[c] = 1 /\ sent[c] = 1
    /\ \E o \in Conns : ran[o] = "returned" /\ stops[o] = 1 /\ sent[o] = 1

\* C4: when run() raises, the response is status "error" with the exception's
\* message, and the connection is answered once and closed.
C4_RunErrorReported ==
  \A c \in Conns :
    ran[c] = "raised" =>
      /\ answered(c) => result[c] = [status |-> "error", message |-> RunError]
      /\ pc[c] = "done" => sent[c] = 1 /\ closed[c]

C4_Witness ==
  \E c \in Conns :
    ran[c] = "raised" /\ pc[c] = "done" /\ sent[c] = 1 /\ closed[c]
    /\ status(result[c]) = "error"

\* C5: a record command whose scenario is absent, omitted or fails to load is
\* answered with status "error"; it makes no start call to the recording
\* service and never invokes run().
Unloadable == {"does_not_exist", PyNone, "broken"}

C5_unloadable(c) ==
  is_object(c) /\ action_of(c) = "record"
  /\ get(data[c].cmd, "scenario", PyNone) \in Unloadable

C5_LoadFailureFailsFast ==
  \A c \in Conns :
    C5_unloadable(c) =>
      /\ answered(c) /\ status(result[c]) = "error"
      /\ starts[c] = 0 /\ start_ret[c] = "none" /\ screencast[c] = NoScreencast
      /\ ran[c] = "no"

C5_Witness ==
  \E c \in Conns :
    /\ C5_unloadable(c) /\ get(data[c].cmd, "scenario", PyNone) = "broken"
    /\ pc[c] = "done" /\ sent[c] = 1 /\ status(result[c]) = "error"
    /\ \E o \in Conns : C5_unloadable(o) /\ "scenario" \notin DOMAIN data[o].cmd
                        /\ pc[o] = "done"

\* C6: a command with action ping is answered with exactly
\* {status: "ok", message: "pong"}, whatever else it carries and whether or
\* not a recording is in progress.
C6_PingPong ==
  \A c \in Conns :
    (is_object(c) /\ action_of(c) = "ping") => (answered(c) /\ result[c] = Pong)

C6_Witness ==
  \E c, o \in Conns :
    /\ is_object(c) /\ action_of(c) = "ping" /\ "output" \in DOMAIN data[c].cmd
    /\ pc[c] = "done" /\ sent[c] = 1
    /\ pc[o] = "run" /\ is_recording(screencast[o])

\* C7: an object command whose action is none of ping, record, list_scenarios
\* (or is missing) is answered {status: "error", message: "Unknown action: " +
\* the action as printed}; it loads no scenario and calls no recording service.
C7_UnknownAction ==
  \A c \in Conns :
    (is_object(c) /\ action_of(c) \notin {"ping", "record", "list_scenarios"}) =>
      /\ answered(c)
      /\ result[c] =
           [status |-> "error",
            message |-> <<"Unknown action: ",
                          IF "action" \in DOMAIN data[c].cmd
                            THEN data[c].cmd.action ELSE "None">>]
      /\ loads[c] = 0 /\ starts[c] = 0 /\ stops[c] = 0
      /\ screencast[c] = NoScreencast

C7_Witness ==
  \E c, o \in Conns :
    /\ is_object(c) /\ "action" \notin DOMAIN data[c].cmd /\ pc[c] = "done"
    /\ is_object(o) /\ action_of(o) = "frobnicate" /\ sent[o] = 1

\* C8: bytes that are not valid JSON are answered with status "error" and the
\* parse-error text, the connection is closed, and the accept loop goes on: the
\* next connection is accepted, and a later ping is answered pong.
C8_InvalidJsonAnswered ==
  \A c \in Conns :
    data[c].text = "invalid" =>
      /\ answered(c)
      /\ result[c] = [status |-> "error",
                      message |-> <<"Invalid JSON: ", json_loads(data[c]).err>>]
      /\ pc[c] = "done" =>
           /\ sent[c] = 1 /\ closed[c]
           /\ \A l \in Conns :
                l > c =>
                  /\ (pc[l] = "unaccepted" /\ \A b \in Conns : b < l => pc[b] # "unaccepted")
                       => ENABLED accept(l)
                  /\ (is_object(l) /\ action_of(l) = "ping" /\ pc[l] = "done")
                       => (result[l] = Pong /\ sent[l] = 1)

C8_Witness ==
  \E c, l \in Conns :
    /\ c < l /\ data[c].text = "invalid" /\ pc[c] = "done" /\ closed[c]
    /\ is_object(l) /\ action_of(l) = "ping" /\ pc[l] = "done" /\ sent[l] = 1

C10_SecondStartFails ==
  [][(session.recording /\ op' = "start" /\ ops' = ops + 1)
       => (ret' = "False" /\ svc_starts' = svc_starts
           /\ session' = session /\ active' = 1)]_vars

C10_Witness ==
  /\ ops = 2 /\ op = "start" /\ ret = "False"
  /\ session.recording /\ session.output_path = "/tmp/x.webm"
  /\ svc_starts = 1 /\ svc_stops = 0 /\ active = 1


\* C11: stop() on an idle Screencast returns False, issues no call to the
\* recording service and leaves every field of the instance unchanged.
C11_StopWhenIdle ==
  [][(~session.recording /\ op' = "stop" /\ ops' = ops + 1)
       => (ret' = "False" /\ svc_stops' = svc_stops /\ svc_reply' = "none"
           /\ session' = session /\ ~session'.recording)]_vars

C11_Witness ==
  /\ op = "stop" /\ ret = "False" /\ ~session.recording
  /\ session.output_path = "/tmp/x.webm" /\ session.proxy = "proxy"
  /\ svc_reply = "none" /\ svc_stops = 1 /\ svc_starts = 1 /\ ops = 3

C13_StopOnRecording ==
  [][(session.recording /\ op' = "stop" /\ ops' = ops + 1)
       => /\ svc_stops' = svc_stops + 1
          /\ IF svc_reply' = "success"
               THEN ret' = "True" /\ ~session'.recording
               ELSE ret' = "False" /\ session' = session]_vars

C13_Witness ==
  /\ ops = 3 /\ op = "stop" /\ ret = "True" /\ ~session.recording
  /\ svc_starts = 1 /\ svc_stops = 2 /\ active = 0


\* C14: a move with N >= 1 steps returns normally and what it emitted adds up to
\* the displacement on each axis: with the uinput device the (dx, dy) handed to
\* _move_uinput_rel sum to (to - from); without it the last absolute
\* coordinate handed to the tool is the target.
C14_IncrementsSumToDisplacement ==
  (call.op = "move" /\ call.steps >= 1)
    => /\ call.ret = "None"
       /\ IF call.avail
            THEN /\ Len(call.rel) = call.steps + 1
                 /\ sum_pairs(call.rel, 0)
                      = <<call.to[1] - call.from[1], call.to[2] - call.from[2]>>
            ELSE /\ Len(call.abs) = call.steps + 1
                 /\ call.abs[Len(call.abs)] = call.to

C14_Witness ==
  /\ call.op = "move" /\ call.avail /\ call.steps = MaxSteps
  /\ call.from = <<1, MaxCoord>> /\ call.to = <<MaxCoord, -(MaxCoord + 1)>>
  /\ \E k \in 2..MaxSteps : call.rel[k][1] > 0 /\ call.rel[k][2] < 0
  /\ calls = 2

\* C15: a move with N = 0 steps emits nothing, sets the tracked position to the
\* target and returns normally.
C15_ZeroStepsJump ==
  (call.op = "move" /\ call.steps = 0)
    => /\ call.ret = "None"
       /\ call.rel = <<>> /\ call.abs = <<>>
       /\ last = call.to

\* C16: when a move with N >= 1 returns, the tracked position is exactly the
\* target, on either backend; and on a Wayland session a move starts from the
\* tracked position the previous call left.
C16_TrackedPositionIsTarget ==
  [][(call'.op = "move" /\ calls' = calls + 1 /\ call'.steps >= 1)
       => /\ call'.ret = "None"
          /\ last' = call'.to
          /\ IS_WAYLAND => call'.from = last]_vars

C16_Witness ==
  /\ IS_WAYLAND /\ calls = 2 /\ call.op = "move" /\ ~call.avail
  /\ call.steps = MaxSteps
  /\ call.from = <<MaxCoord, -(MaxCoord + 1)>> /\ call.to = <<1, MaxCoord>>
  /\ last = call.to

\* C19: UInput() is called at most once in the life of the process.
C19_DeviceCreationAttemptedOnce == attempts <= 1

\* C20: whatever the interleaving of the threads, UInput() returns at most one
\* handle in the life of the process, and every device write goes to the handle
\* the module global holds.
C20_OneDeviceEverCreated ==
  /\ created <= 1
  /\ \A h \in written : h = uinput_device


\* C17: every answer to list_scenarios is status "ok" with exactly the stems of
\* the scenarios directory that do not begin with an underscore, whatever the
\* other connections are doing and however often it is asked.
C17_ListScenarios ==
  \A c \in Conns :
    (is_object(c) /\ action_of(c) = "list_scenarios" /\ answered(c))
      => result[c] = [status |-> "ok",
                      scenarios |-> {"basic_usage", "multi_monitor", "norun", "broken",
                                     "notcallable", "needsargs"}]

C17_Witness ==
  /\ is_object(1) /\ action_of(1) = "list_scenarios" /\ pc[1] = "done"
  /\ pc[2] = "run" /\ is_recording(screencast[2])
  /\ "_common" \notin result[1].scenarios
  /\ "_common" \in DOMAIN SCENARIOS_DIR


\* C18: a record command answered with status "ok" had its recording started
\* with the command's output path, "/tmp/recording.webm" when the command has
\* none (the service is handed that path as pathlib spells it), its response is
\* {status: "ok", output: that path as the command gave it}, and it slept
\* pre_delay and post_delay, each 1 when the command omits it.
C18_RecordDefaults ==
  \A c \in Conns :
    (is_object(c) /\ action_of(c) = "record" /\ answered(c)
     /\ status(result[c]) = "ok")
      => LET cmd == data[c].cmd
             output == IF "output" \in DOMAIN cmd THEN cmd.output
                       ELSE "/tmp/recording.webm"
             pre == IF "pre_delay" \in DOMAIN cmd THEN cmd.pre_delay ELSE 1
             post == IF "post_delay" \in DOMAIN cmd THEN cmd.post_delay ELSE 1
         IN /\ result[c] = [status |-> "ok", output |-> output]
            /\ screencast[c].output_path = Path(output)
            /\ starts[c] = 1
            /\ slept[c] = <<pre, post>>

C18_Witness ==
  /\ pc[1] = "done" /\ status(result[1]) = "ok"
  /\ data[1].cmd.scenario = "basic_usage" /\ "output" \notin DOMAIN data[1].cmd
  /\ slept[1] = <<1, 1>> /\ screencast[1].output_path = "/tmp/recording.webm"
  /\ pc[2] = "send" /\ status(result[2]) = "ok"
  /\ result[2].output = "/tmp//x.webm" /\ screencast[2].output_path = "/tmp/x.webm"
  /\ slept[2] = <<0, 2>>


\* The tool calls and the complete device clicks a click can make.
ToolClicks == {tool_click(b, w) : b \in 1..4, w \in BOOLEAN}
in_events(e) == \E k \in 1..Len(call.events) : call.events[k] = e
device_clicked ==
  \E b \in {"BTN_LEFT", "BTN_MIDDLE", "BTN_RIGHT"} :
    in_events("uinput press " \o b) /\ in_events("uinput release " \o b)

C22_ClickCompositions ==
  /\ call.op = "right_click"
       => \E wr \in ClickRaises :
            call.events
              = click_events(IF call.avail THEN uinput_device ELSE PyNone,
                             3, wr, IS_WAYLAND)
  /\ call.op = "double_click"
       => call.events = click_events(uinput_device, 1, "none", IS_WAYLAND)
                          \o click_events(uinput_device, 1, "none", IS_WAYLAND)

\* C23: mouse_down, mouse_up, type_text and key_press make one tool call each,
\* write nothing to the uinput device and do not call UInput(), whatever the
\* state of the input engine.
UInputEvents ==
  {"uinput press " \o b : b \in {"BTN_LEFT", "BTN_MIDDLE", "BTN_RIGHT"}}
    \cup {"uinput release " \o b : b \in {"BTN_LEFT", "BTN_MIDDLE", "BTN_RIGHT"}}

C23_ToolOnlyCalls ==
  [][(calls' = calls + 1
      /\ call'.op \in {"mouse_down", "mouse_up", "type_text", "key_press"})
       => /\ attempts' = attempts /\ created' = created
          /\ uinput_device' = uinput_device
          /\ call'.ret = "None" /\ call'.rel = <<>>
          /\ Len(call'.events) = 1
          /\ call'.events[1] \notin UInputEvents]_vars

C23_Witness ==
  /\ call.op = "mouse_down" /\ call.button = 3
  /\ uinput_device # PyNone /\ attempts = 1
  /\ call.events = <<"ydotool mousedown 0x42">>

\* C24: a move of N >= 1 steps that starts where the pointer is leaves the
\* pointer on the target, also when a device write raised in one of its steps.
C24_PointerReachesTarget ==
  [][(calls' = calls + 1 /\ call'.op = "move" /\ call'.steps >= 1
      /\ call'.from = pointer)
       => (pointer' = call'.to /\ last' = call'.to)]_vars


\* C25: the process has one Screencast: at most one instance is ever
\* constructed, and every record command calls start and stop on it.
C25_OneSessionInstance ==
  Cardinality({c \in Conns : screencast[c] # NoScreencast}) <= 1

\* C27: while a record command of another connection sleeps or runs its
\* scenario, a connection can be accepted, its ping or list_scenarios command
\* read and answered at once, and its response sent: none of these steps waits
\* for the record command.
C27_QuickCommandsDoNotWait ==
  \A c \in Conns :
    (\E o \in Conns \ {c} : pc[o] \in {"pre", "run", "post"})
      => /\ (pc[c] = "unaccepted" /\ \A b \in Conns : b < c => pc[b] # "unaccepted")
              => ENABLED accept(c)
         /\ pc[c] = "recv" => \A d \in QuickRequests : ENABLED handle_client(c, d)
         /\ (data[c] \in QuickRequests /\ pc[c] # "recv")
              => /\ pc[c] \in {"send", "close", "done"}
                 /\ status(result[c]) = "ok"
                 /\ pc[c] = "send" => ENABLED send(c)
                 /\ pc[c] = "close" => ENABLED close(c)

C27_Witness ==
  /\ pc[1] = "run" /\ is_recording(screencast[1])
  /\ pc[2] = "done" /\ data[2] \in QuickRequests /\ sent[2] = 1
  /\ result[2] = Pong

\* C28: within a record command the events come in the order load, start,
\* pre_delay sleep, run, post_delay sleep, stop, response: start follows a
\* load, the sleeps and run() follow a successful start, the post_delay sleep
\* happens only after run() returned, stop follows run() (returned or raised),
\* and the response follows stop.
C28_RecordOrder ==
  \A c \in Conns :
    /\ starts[c] >= 1 => loads[c] = 1
    /\ Len(slept[c]) >= 1 => start_ret[c] = "True"
    /\ ran[c] # "no" => (start_ret[c] = "True" /\ Len(slept[c]) >= 1)
    /\ Len(slept[c]) <= 2
    /\ Len(slept[c]) = 2 => ran[c] = "returned"
    /\ ran[c] = "raised" => Len(slept[c]) = 1
    /\ stops[c] >= 1 => (ran[c] # "no" /\ (ran[c] = "returned" => Len(slept[c]) = 2))
    /\ (sent[c] = 1 /\ start_ret[c] = "True") => stops[c] = 1
    /\ (ran[c] = "raised" /\ answered(c)) => stops[c] = 1

C28_Witness ==
  /\ pc[1] = "done" /\ ran[1] = "raised" /\ Len(slept[1]) = 1 /\ stops[1] = 1
  /\ pc[2] = "done" /\ ran[2] = "returned" /\ Len(slept[2]) = 2 /\ stops[2] = 1
  /\ loads[1] = 1 /\ loads[2] = 1

\* C29: when start() returns False in a record command, the response is
\* {status: "error", message: "Failed to start recording"}, run() is not
\* invoked, nothing is slept and stop() is not called.
C29_StartFailureResponse ==
  \A c \in Conns :
    start_ret[c] = "False"
      => /\ answered(c)
         /\ result[c] = [status |-> "error", message |-> <<"Failed to start recording">>]
         /\ ran[c] = "no" /\ slept[c] = <<>> /\ stops[c] = 0

C29_Witness ==
  /\ start_ret[1] = "False" /\ starts[1] = 1 /\ pc[1] = "done" /\ sent[1] = 1


\* C26: the test of the session being idle and the write that makes it
\* recording are atomic among start() calls on one session: a thread calls the
\* recording service only while the session is still idle, so of the calls
\* that overlap at most one reaches the service and at most one returns True.
C26_StartCheckAtomic ==
  [][\A th \in Threads :
       (spc[th] = "call" /\ spc'[th] = "idle")
         => (~session.recording /\ active' <= 1)]_vars


\* C30: a record command naming a scenario whose module has no zero-argument
\* function run (run missing, not callable, or needing arguments) fails at
\* load: it is answered with status "error" and no Screencast is constructed
\* or started for it.
C30_LoadContract ==
  \A c \in Conns :
    (pc[c] \notin {"unaccepted", "recv"} /\ is_object(c)
     /\ action_of(c) = "record"
     /\ get(data[c].cmd, "scenario", PyNone) \in {"norun", "notcallable", "needsargs"})
      => /\ answered(c)
         /\ status(result[c]) = "error"
         /\ starts[c] = 0
         /\ screencast[c] = NoScreencast


\* C31: loading is never cached: a record command that names an existing
\* scenario executes the top-level code of the scenario file once, as the file
\* stands when the command is dispatched, however many commands named the
\* scenario before; a command naming no existing scenario executes nothing.
C31_existing(c) ==
  is_object(c) /\ action_of(c) = "record"
  /\ str(get(data[c].cmd, "scenario", PyNone)) \in DOMAIN SCENARIOS_DIR

C31_NoCaching ==
  [][\A c \in Conns :
       (pc[c] = "recv" /\ pc'[c] # "recv")
         => IF C31_existing(c)' THEN executed'[c] = <<source>> /\ loads'[c] = 1
            ELSE executed'[c] = <<>>]_vars

C31_Witness ==
  /\ C31_existing(1) /\ C31_existing(2)
  /\ data[1].cmd.scenario = "basic_usage" /\ data[2].cmd.scenario = "basic_usage"
  /\ pc[1] = "done" /\ pc[2] = "done"
  /\ executed[1] = <<0>> /\ executed[2] = <<1>>


\* C32: when start(path, options) calls the recording service, the options map
\* it sends holds exactly the entries of options whose value is a string, a
\* boolean or an integer, in order, a boolean as a boolean; the other entries
\* are dropped and no entry makes start raise.
C32_wanted(v) == v.t \in {"bool", "int", "str"}
C32_sig(v) == IF v.t = "bool" THEN "b" ELSE IF v.t = "int" THEN "i" ELSE "s"
C32_expected ==
  LET kept == SelectSeq(options, LAMBDA e : C32_wanted(e.v))
  IN [i \in 1..Len(kept) |->
        [k |-> kept[i].k, sig |-> C32_sig(kept[i].v),
         hi |-> kept[i].v.hi, lo |-> kept[i].v.lo, s |-> kept[i].v.s]]

C32_OptionsMap ==
  /\ ~built.raised
  /\ built.sent => built.opts = C32_expected


\* C33: a record command that has begun runs to completion: as long as
\* sleeps, run() and the calls of the recording service return, its response
\* is sent and its connection closed, whatever the other connections do (a
\* peer that never sends its request included).
C33_RecordCompletes ==
  \A c \in Conns :
    (pc[c] \in {"start", "pre", "run", "post", "stop", "send", "close"})
      ~> (pc[c] = "done" /\ sent[c] = 1 /\ closed[c])

C33_Witness ==
  /\ pc[1] = "done" /\ ran[1] = "returned" /\ sent[1] = 1 /\ closed[1]
  /\ stops[1] = 1 /\ pc[2] = "recv"


\* C34: a request that is valid JSON but not an object (array, string,
\* number, true/false, null) and a request that is not valid UTF-8 are each
\* answered with a status "error" response: the handler builds it, sends it
\* once and only then closes the connection.
C34_malformed(c) == data[c].text \in DOMAIN NonObjects \cup {"not_utf8"}

C34_NonObjectAnswered ==
  \A c \in Conns :
    C34_malformed(c)
      => /\ answered(c)
         /\ status(result[c]) = "error"
         /\ pc[c] \in {"close", "done"} => sent[c] = 1

C34_Witness ==
  /\ data[1].text = "not_utf8" /\ pc[1] = "done" /\ sent[1] = 1 /\ closed[1]
  /\ data[2].text = "null" /\ pc[2] = "done" /\ sent[2] = 1
  /\ result[2] = error(<<"'NoneType' object has no attribute 'get'">>)


\* C35: a record command answered with status "ok" has stopped its recording:
\* its stop() call returned True and its Screencast is idle when the response
\* is sent.
C35_OkMeansStopped ==
  \A c \in Conns :
    (is_object(c) /\ action_of(c) = "record" /\ answered(c)
     /\ status(result[c]) = "ok")
      => /\ stop_ret[c] = "True"
         /\ ~is_recording(screencast[c])


\* C36: in a move with N >= 1 the pointer neither overshoots nor backtracks:
\* on each axis every delta emitted is zero or has the sign of the total
\* displacement, and the displacement reached after any step is at most the
\* total one in magnitude.  On the tool path the deltas are those between
\* consecutive absolute coordinates.
C36_abs(a) == IF a < 0 THEN -a ELSE a
C36_total(a) == call.to[a] - call.from[a]
C36_reached(k, a) ==
  IF k = 0 THEN 0
  ELSE IF call.avail THEN sum_pairs(SubSeq(call.rel, 1, k), 0)[a]
  ELSE call.abs[k][a] - call.from[a]

C36_NoOvershoot ==
  (call.op = "move" /\ call.steps >= 1)
    => \A k \in 1..(call.steps + 1), a \in {1, 2} :
         /\ sgn(C36_reached(k, a) - C36_reached(k - 1, a)) \in {0, sgn(C36_total(a))}
         /\ C36_abs(C36_reached(k, a)) <= C36_abs(C36_total(a))

C36_Witness ==
  /\ call.op = "move" /\ ~call.avail /\ call.steps = MaxSteps
  /\ C36_total(1) < 0 /\ C36_total(2) > 0
  /\ \E k \in 2..MaxSteps :
       /\ C36_reached(k, 1) < C36_reached(k - 1, 1)
       /\ C36_reached(k, 2) > C36_reached(k - 1, 2)
       /\ C36_reached(k, 1) > C36_total(1)


\* C37: client and daemon agree on the wire protocol: the daemon parses
\* exactly the command object send_command sent, and send_command returns
\* exactly the response the daemon built for it, however the transport cuts
\* the two messages.
C37_WireAgreement ==
  \A c \in Conns :
    /\ (cpc[c] # "idle" /\ pc[c] # "recv")
         => (data[c].text = "object" /\ data[c].nl /\ data[c].cmd = ccmd[c])
    /\ cpc[c] # "raised"
    /\ cpc[c] = "returned"
         => /\ returned[c] = result[c]
            /\ action_of(c) # "record" => returned[c] = handle_command(ccmd[c])

C37_Witness ==
  /\ cpc[1] = "returned" /\ ccmd[1].action = "record"
  /\ returned[1] = [status |-> "ok", output |-> "/tmp/basic_usage.webm"]
  /\ cpc[2] = "returned" /\ ccmd[2].action = "list_scenarios"
  /\ returned[2] = [status |-> "ok", scenarios |-> scenario_stems]
  /\ pc[1] = "done" /\ pc[2] = "done"


\* C38: for every pair run_scenario runs, the converter is invoked only after
\* the daemon answered the record command with status "ok", the GIF is copied
\* only after the conversion exited with code 0, and a GIF path is returned
\* only when every step before succeeded; the process exits non-zero whenever
\* a pair produced no GIF.
C38_in_log(i, e) == \E k \in 1..Len(hlogs[i]) : hlogs[i][k] = e
C38_at(i, e) == CHOOSE k \in 1..Len(hlogs[i]) : hlogs[i][k] = e

C38_HostOrder ==
  /\ \A i \in 1..Len(hlogs) :
       /\ \A rc \in ReturnCodes :
            C38_in_log(i, "convert " \o ToString(rc))
              => (hlogs[i][1] = "record ok" /\ C38_at(i, "convert " \o ToString(rc)) = 2)
       /\ \A scp \in ScpOutcomes :
            C38_in_log(i, "scp gif " \o scp)
              => (hlogs[i][2] = "convert 0" /\ C38_at(i, "scp gif " \o scp) = 3)
  /\ \A i \in 1..Len(hresults) :
       hresults[i] # PyNone
         => /\ hresults[i] = local_gif(hpairs[i])
            /\ SubSeq(hlogs[i], 1, 3) = <<"record ok", "convert 0", "scp gif ok">>
            /\ \A k \in 1..Len(hlogs[i]) :
                 hlogs[i][k] \in {"record ok", "convert 0", "scp gif ok", "scp webm ok"}
  /\ hpc = "exit" => hexit # -1
  /\ (hpc = "exit" /\ (Len(hresults) < Len(hpairs)
                        \/ \E i \in 1..Len(hresults) : hresults[i] = PyNone))
       => hexit # 0

C38_Witness ==
  /\ hpc = "exit" /\ hexit = 1 /\ Len(hpairs) = 2
  /\ hresults = <<"output/x11/basic_usage.gif", PyNone>>
  /\ hlogs[2] = <<"record ok", "convert 1">>

====
